---------------------------- MODULE Spec2Model ----------------------------
(***************************************************************************)
(* Chess-CV: the notation encoder (chessAnalysis.cpp) and the geometric    *)
(* calibration stages (processingOps.cpp) as state machines.               *)
(*                                                                         *)
(* Strings that the program builds character by character are sequences of *)
(* one-character strings.  A point (cv::Point2f) is a record               *)
(* [nx, ny, d] standing for the exact coordinates (nx/d, ny/d), d >= 1.     *)
(***************************************************************************)
EXTENDS Integers, Sequences, FiniteSets, TLC

VARIABLES
    squareLabels,   \* getFenFromLabels: the argument vector
    fen,            \* getFenFromLabels: the local string fen / the value returned
    fenPc,          \* "idle" | "prompt" (blocked in std::cin >> turn) | "returned" | "thrown"
    turn,           \* getFenFromLabels: the local string turn (last token read)
    prompts,        \* number of prompt lines printed so far
    currentEmpty,   \* value of the local counter currentEmpty when the loop was left
    calls,          \* number of calls of getFenFromLabels made so far
    prevFen,        \* value returned by the previous call, <<"none">> when there is none
    prevTurn,       \* turn accepted by the previous call
    cmpPts,         \* comparePoints: the points it is called on
    cmpRes,         \* comparePoints: cmpRes[i][j] is the value returned for (cmpPts[i], cmpPts[j])
    cmpPc,          \* "idle" | "done"
    lines,          \* getIntersections: the segments (cv::Vec4i) it is given
    intersections,  \* getIntersections: the output vector of points
    solverPc,       \* "idle" | "done"
    solverRet,      \* value returned by getIntersections, -1 before it returns
    gridPoints,     \* setRectangles: the vector of points it is given
    rectangles,     \* setRectangles: the output vector of cv::Rect
    gridPc,         \* "idle" | "done" (returned) | "crashed" (killed by an out-of-range read)
    gridRet,        \* value returned by setRectangles, -1 before it returns
    oobReads,       \* indices at or past the end of gridPoints that setRectangles has read
    h1,             \* computeHistogramIntersectionDifference: the first histogram
    h2,             \* computeHistogramIntersectionDifference: the second histogram
    diffRes,        \* diffRes[1]: outcome of the call on (h1, h2); diffRes[2]: of the call on (h2, h1)
    diffOob,        \* 0-based indices read at or past the end of the second argument
    diffMsgs,       \* number of "Size issues..." lines printed
    imageSize,      \* size of the image the squares are cut from: [cols, rows]
    features,       \* computeHistogramDiffs: the histogram of the square (getHistogramFeature)
    corpusLabels,   \* computeHistogramDiffs: labels
    featureData,    \* computeHistogramDiffs: featureData
    currentRect,    \* the region a square-level function was called on
    pieceOp,        \* the square-level function called, "none" before the call
    piecePc,        \* "idle" | "returned" | "thrown" (cv::Exception) | "crashed"
    pieceLabel,     \* the label returned by computeHistogramDiffs or getNNPieceLabel
    pieceEmpty,     \* the value returned by isEmptySpace
    pixelsRead,     \* the regions of the image whose pixels have been read
    tableReads,     \* the indices PIECE_VALUES has been read at
    histOob,        \* 0-based indices of the corpus vectors read at or past their end
    boardImage,     \* what the image shows on each square: "none" or the piece on it
    csvData,        \* the corpora read from the two feature files: [light, dark]
    showLabels,     \* the argument showLabels of getPieceLabels and getPieceLabelsNN
    labelPc,        \* getPieceLabels: "idle" | "done" | "thrown" (cv::Exception)
    labelRet,       \* value returned by getPieceLabels, -1 before it returns
    histFlags,      \* getPieceLabels: the value of isDarkSquare used for each square
    nnLabels,       \* getPieceLabelsNN: its output vector squareLabels
    nnPc,           \* getPieceLabelsNN: "idle" | "done" | "thrown" (cv::Exception)
    nnRet,          \* value returned by getPieceLabelsNN, -1 before it returns
    nnFlags,        \* getPieceLabelsNN: the value of isDarkSquare used for each square
    dirtyReads,     \* getPieceLabels: squares whose labelling read pixels an annotation had changed
    nnDirtyReads,   \* getPieceLabelsNN: the same
    corpusPc,       \* labelImages: "idle" | "done" | "thrown" (cv::Exception)
    corpusFlags,    \* labelImages: the value of isDarkSquare at each square shown
    corpusRows,     \* labelImages: the rows appended, each [square, dark (the file it went to)]
    currentDisplay, \* handleBoardFlow: the mode it was called with
    analysisPc,     \* getChessAnalysis: "idle" | "returned" | "thrown" (json parse error)
    analysisFen,    \* getChessAnalysis: the string sent to the analysis server
    histImage,      \* getHistogramFeature: the pixels of image, each <<blue, green, red>>
    numBins,        \* getHistogramFeature: the argument numBins
    histogram,      \* getHistogramFeature: the result, bin |-> <<count, number of pixels>>, zeros left out
    histPc          \* getHistogramFeature: "idle" | "returned"

fenVars == <<squareLabels, fen, fenPc, turn, prompts, currentEmpty, calls, prevFen, prevTurn>>

cmpVars == <<cmpPts, cmpRes, cmpPc>>

solverVars == <<lines, intersections, solverPc, solverRet>>

gridVars == <<gridPoints, rectangles, gridPc, gridRet, oobReads>>

diffVars == <<h1, h2, diffRes, diffOob, diffMsgs>>

squareVars == <<imageSize, features, corpusLabels, featureData, currentRect, pieceOp, piecePc,
                pieceLabel, pieceEmpty, pixelsRead, tableReads, histOob>>

labelVars ==
    <<boardImage, csvData, showLabels, labelPc, labelRet, histFlags, nnLabels, nnPc, nnRet, nnFlags,
      dirtyReads, nnDirtyReads, corpusPc, corpusFlags, corpusRows>>

flowVars == <<currentDisplay, analysisPc, analysisFen>>

histVars == <<histImage, numBins, histogram, histPc>>

pieceVars == <<diffVars, squareVars, labelVars, flowVars, histVars>>

vars == <<fenVars, cmpVars, solverVars, gridVars, pieceVars>>

-----------------------------------------------------------------------------
(* Bounds of the model *)

MaxPieces == 2      \* pieces placed on an otherwise empty board
MaxExtra == 1       \* label vectors of 64 - MaxExtra .. 64 + MaxExtra entries
MaxPrompts == 2     \* prompts printed per call made so far
MaxCalls == 2       \* calls of getFenFromLabels on the same vector
MaxCmpX == 2        \* comparePoints: x coordinates 0 .. MaxCmpX
MaxCmpRows == 4     \* comparePoints: y coordinates 0, 4, .. 4 * MaxCmpRows
MaxLines == 4       \* getIntersections: segments in the input
MaxMissing == 2     \* setRectangles: up to this many points fewer or more than 81
MaxBins == 4        \* histograms of MaxBins - 1 .. MaxBins bins
MaxCorpus == 2      \* computeHistogramDiffs: entries of the corpus
MaxExtraClasses == 1 \* getNNPieceLabel: outputs of the classifier beyond the 12 of the table
MaxLostLines == 1   \* handleBoardFlow: lines of the board that calcHoughLines does not find
MaxPixels == 2      \* getHistogramFeature: pixels of the image
MaxNumBins == 16    \* getHistogramFeature: the argument numBins

(* Program constants *)

BoardSquares == 64
RowLen == 8

-----------------------------------------------------------------------------
(* chessAnalysis.cpp *)

PieceKeys == {"wp", "wn", "wb", "wr", "wq", "wk", "bp", "bn", "bb", "br", "bq", "bk"}

\* a table that answers "?" for the empty label
pieceToFenWithDefault ==
    [k \in PieceKeys \cup {""} |->
        CASE k = "wp" -> "P" [] k = "wn" -> "N" [] k = "wb" -> "B"
          [] k = "wr" -> "R" [] k = "wq" -> "Q" [] k = "wk" -> "K"
          [] k = "bp" -> "p" [] k = "bn" -> "n" [] k = "bb" -> "b"
          [] k = "br" -> "r" [] k = "bq" -> "q" [] k = "bk" -> "k"
          [] OTHER -> "?"]

\* a table that gives the black pawn the letter of the white one
pieceToFenOneCase ==
    [k \in PieceKeys |->
        CASE k = "wp" -> "P" [] k = "wn" -> "N" [] k = "wb" -> "B"
          [] k = "wr" -> "R" [] k = "wq" -> "Q" [] k = "wk" -> "K"
          [] k = "bp" -> "P" [] k = "bn" -> "n" [] k = "bb" -> "b"
          [] k = "br" -> "r" [] k = "bq" -> "q" [] k = "bk" -> "k"]

pieceToFen ==
    [k \in PieceKeys |->
        CASE k = "wp" -> "P" [] k = "wn" -> "N" [] k = "wb" -> "B"
          [] k = "wr" -> "R" [] k = "wq" -> "Q" [] k = "wk" -> "K"
          [] k = "bp" -> "p" [] k = "bn" -> "n" [] k = "bb" -> "b"
          [] k = "br" -> "r" [] k = "bq" -> "q" [] k = "bk" -> "k"]

Digits == <<"0", "1", "2", "3", "4", "5", "6", "7", "8", "9">>

\* std::to_string(int) for n >= 0: the decimal digits, most significant first
RECURSIVE to_string(_)
to_string(n) ==
    IF n < 10 THEN <<Digits[n + 1]>>
    ELSE to_string(n \div 10) \o <<Digits[(n % 10) + 1]>>

\* the flush of the pending count of empty squares (lines 146-149 and 159-162)
FlushEmpty(f, ce) == IF ce > 0 THEN f \o to_string(ce) ELSE f

\* a counter that keeps the value a previous call left behind
StaleEmpty == currentEmpty

\* int currentEmpty = 0;
InitialEmpty == 0

\* the guard at the head of getFenFromLabels, written as "the size is accepted"
SizeAtLeast(labels) == Len(labels) >= BoardSquares

SizeOk(labels) == Len(labels) = BoardSquares

\* the for loop of getFenFromLabels from index i (0-based) on; st = [fen, ce, thrown]
RECURSIVE FenLoop(_, _, _)
FenLoop(labels, i, st) ==
    IF i >= Len(labels) \/ st.thrown THEN st
    ELSE
        LET newRow == (i % RowLen = 0) /\ (i # 0)
            f1 == IF newRow THEN FlushEmpty(st.fen, st.ce) \o <<"/">> ELSE st.fen
            c1 == IF newRow THEN 0 ELSE st.ce
            lab == labels[i + 1]
        IN  IF lab = "ee"
            THEN FenLoop(labels, i + 1, [fen |-> f1, ce |-> c1 + 1, thrown |-> FALSE])
            ELSE IF lab \in DOMAIN pieceToFen
                 THEN FenLoop(labels, i + 1,
                              [fen |-> FlushEmpty(f1, c1) \o <<pieceToFen[lab]>>,
                               ce |-> 0, thrown |-> FALSE])
                 \* pieceToFen.at throws std::out_of_range after the flush
                 ELSE [fen |-> FlushEmpty(f1, c1), ce |-> 0, thrown |-> TRUE]

\* a suffix without the two counters
FenSuffixShort == <<" ", "-", " ", "-">>

FenSuffix == <<" ", "-", " ", "-", " ", "0", " ", "0">>

TurnTokens == {"w", "b", "x"}

\* the text of a string before its first space (all of it when it has none)
RECURSIVE BoardField(_)
BoardField(f) ==
    IF f = <<>> \/ Head(f) = " " THEN <<>> ELSE <<Head(f)>> \o BoardField(Tail(f))

-----------------------------------------------------------------------------
(* Inputs of the encoder *)

SampleSquares == {0, 1, 7, 8, 55, 56, 62, 63}
\* three table keys, the black bishop among them, and the label
\* computeHistogramDiffs returns for an empty corpus
SampleLabels == {"wp", "bk", "bb", ""}

Placements ==
    UNION {[S -> SampleLabels] : S \in {T \in SUBSET SampleSquares : Cardinality(T) <= MaxPieces}}

BoardOf(pl) == [i \in 1..BoardSquares |-> IF (i - 1) \in DOMAIN pl THEN pl[i - 1] ELSE "ee"]

Resize(board, n) == [i \in 1..n |-> IF i <= Len(board) THEN board[i] ELSE "ee"]

LabelSizes == {0} \cup ((BoardSquares - MaxExtra)..(BoardSquares + MaxExtra))

InputLabels == {Resize(BoardOf(pl), n) : pl \in Placements, n \in LabelSizes}

-----------------------------------------------------------------------------
(* The encoder as a state machine *)

FenIdle ==
    /\ squareLabels = <<>>
    /\ fen = <<>>
    /\ fenPc = "unused"
    /\ turn = ""
    /\ prompts = 0
    /\ currentEmpty = 0
    /\ calls = 0
    /\ prevFen = <<"none">>
    /\ prevTurn = ""

CmpIdle ==
    /\ cmpPts = <<>>
    /\ cmpRes = <<>>
    /\ cmpPc = "unused"

SolverIdle ==
    /\ lines = <<>>
    /\ intersections = <<>>
    /\ solverPc = "unused"
    /\ solverRet = -1

GridIdle ==
    /\ gridPoints = <<>>
    /\ rectangles = <<>>
    /\ gridPc = "unused"
    /\ gridRet = -1
    /\ oobReads = {}

DiffIdle ==
    /\ h1 = <<>>
    /\ h2 = <<>>
    /\ diffRes = <<>>
    /\ diffOob = {}
    /\ diffMsgs = 0

NoRect == [x |-> 0, y |-> 0, width |-> 0, height |-> 0]

\* no square-level function has been called on its own
SquareNotCalled ==
    /\ features = <<>>
    /\ corpusLabels = <<>>
    /\ featureData = <<>>
    /\ currentRect = NoRect
    /\ pieceOp = "none"
    /\ piecePc = "unused"
    /\ pieceLabel = ""
    /\ pieceEmpty = FALSE
    /\ pixelsRead = {}
    /\ tableReads = {}
    /\ histOob = {}

SquareIdle == imageSize = [cols |-> 0, rows |-> 0] /\ SquareNotCalled

CorpusIdle == corpusPc = "unused" /\ corpusFlags = <<>> /\ corpusRows = <<>>

LabelIdle ==
    /\ boardImage = <<>>
    /\ csvData = [light |-> <<>>, dark |-> <<>>]
    /\ showLabels = FALSE
    /\ labelPc = "unused"
    /\ labelRet = -1
    /\ histFlags = <<>>
    /\ dirtyReads = {}
    /\ nnDirtyReads = {}
    /\ nnLabels = <<>>
    /\ nnPc = "unused"
    /\ nnRet = -1
    /\ nnFlags = <<>>
    /\ CorpusIdle

FlowIdle ==
    /\ currentDisplay = ""
    /\ analysisPc = "unused"
    /\ analysisFen = <<>>

HistIdle ==
    /\ histImage = <<>>
    /\ numBins = 0
    /\ histogram = <<>>
    /\ histPc = "unused"

PieceIdle == DiffIdle /\ SquareIdle /\ LabelIdle /\ FlowIdle /\ HistIdle

InitFen ==
    /\ PieceIdle
    /\ CmpIdle
    /\ SolverIdle
    /\ GridIdle
    /\ squareLabels \in InputLabels
    /\ fen = <<>>
    /\ fenPc = "idle"
    /\ turn = ""
    /\ prompts = 0
    /\ currentEmpty = 0
    /\ calls = 0
    /\ prevFen = <<"none">>
    /\ prevTurn = ""

\* std::string getFenFromLabels(squareLabels), up to its first read of std::cin
GetFenFromLabels ==
    /\ fenPc \in {"idle", "returned"}
    /\ calls < MaxCalls
    /\ calls' = calls + 1
    /\ prevFen' = IF fenPc = "returned" THEN fen ELSE prevFen
    /\ prevTurn' = IF fenPc = "returned" THEN turn ELSE prevTurn
    /\ UNCHANGED <<squareLabels, cmpVars, solverVars, gridVars, pieceVars>>
    /\ IF ~SizeOk(squareLabels)
       THEN /\ fen' = <<>>
            /\ fenPc' = "returned"
            /\ turn' = ""
            /\ UNCHANGED <<prompts, currentEmpty>>
       ELSE LET st == FenLoop(squareLabels, 0,
                              [fen |-> <<>>, ce |-> InitialEmpty, thrown |-> FALSE])
            IN  /\ currentEmpty' = st.ce
                /\ turn' = ""
                /\ IF st.thrown
                   THEN /\ fen' = st.fen
                        /\ fenPc' = "thrown"
                        /\ UNCHANGED prompts
                   ELSE /\ fen' = st.fen \o <<" ">>
                        /\ fenPc' = "prompt"
                        /\ prompts' = prompts + 1

\* a read that takes any token for the turn
ReadAnyTurn(tok) ==
    /\ fenPc = "prompt"
    /\ turn' = tok
    /\ fen' = fen \o <<tok>> \o FenSuffix
    /\ fenPc' = "returned"
    /\ UNCHANGED <<prompts, squareLabels, currentEmpty, calls, prevFen, prevTurn>>
    /\ UNCHANGED <<cmpVars, solverVars, gridVars, pieceVars>>

\* std::cin >> turn, the test of the while loop, and the rest of the function;
\* a read that fails (end of input) leaves a token that is neither "w" nor "b"
ReadTurn(tok) ==
    /\ fenPc = "prompt"
    /\ turn' = tok
    /\ IF tok = "w" \/ tok = "b"
       THEN /\ fen' = fen \o <<tok>> \o FenSuffix
            /\ fenPc' = "returned"
            /\ UNCHANGED prompts
       ELSE /\ prompts < MaxPrompts * calls
            /\ prompts' = prompts + 1
            /\ UNCHANGED <<fen, fenPc>>
    /\ UNCHANGED <<squareLabels, currentEmpty, calls, prevFen, prevTurn, cmpVars, solverVars, gridVars, pieceVars>>

NextFen == GetFenFromLabels \/ \E tok \in TurnTokens : ReadTurn(tok)

SpecFen == InitFen /\ [][NextFen]_vars

\* the runs in which standard input supplies "w" or "b" while the call waits
SpecFenFair == SpecFen /\ WF_vars(\E tok \in {"w", "b"} : ReadTurn(tok))

-----------------------------------------------------------------------------
(* Properties of the encoder *)

AllEmptyLabels == [i \in 1..BoardSquares |-> "ee"]

\* the rows of a board field: the pieces between its "/" separators
RECURSIVE RowsOf(_, _)
RowsOf(f, row) ==
    IF f = <<>> THEN <<row>>
    ELSE IF Head(f) = "/" THEN <<row>> \o RowsOf(Tail(f), <<>>)
    ELSE RowsOf(Tail(f), Append(row, Head(f)))

DigitValue(c) == IF \E k \in 1..10 : Digits[k] = c
                 THEN (CHOOSE k \in 1..10 : Digits[k] = c) - 1
                 ELSE -1

\* squares a row of the board field accounts for: its digits plus one per piece character
RECURSIVE SquaresOf(_)
SquaresOf(row) ==
    IF row = <<>> THEN 0
    ELSE (IF DigitValue(Head(row)) >= 0 THEN DigitValue(Head(row)) ELSE 1) + SquaresOf(Tail(row))

FenReturned == fenPc = "returned" /\ Len(squareLabels) = BoardSquares

\* C1: 64 labels that are all "ee" give the board field 8/8/8/8/8/8/8/8
C1_AllEmptyBoard ==
    (FenReturned /\ squareLabels = AllEmptyLabels) =>
        BoardField(fen) = <<"8", "/", "8", "/", "8", "/", "8", "/", "8", "/", "8", "/", "8", "/", "8">>

\* C2: for every 64-label input, the board field has 8 rows and every row, the
\* last included, accounts for exactly 8 squares
C2_EveryRowHasEightSquares ==
    FenReturned =>
        LET rows == RowsOf(BoardField(fen), <<>>)
        IN  /\ Len(rows) = RowLen
            /\ \A r \in 1..Len(rows) : SquaresOf(rows[r]) = RowLen

\* C3: a label vector whose size is not 64 makes the call return the empty
\* string, which no accepted call returns, with no character of a board emitted
\* and no turn requested or read
C3_SizeMismatchReturnsEmpty ==
    /\ Len(squareLabels) # BoardSquares =>
          /\ fenPc \in {"idle", "returned"}
          /\ fen = <<>>
          /\ prompts = 0
          /\ turn = ""
    /\ FenReturned => fen # <<>>

C3_Witness == fenPc = "returned" /\ Len(squareLabels) = BoardSquares + 1 /\ calls = 1

\* C4 as stated: two calls with the same 64 labels return the same string
C4_SameLabelsSameString ==
    (FenReturned /\ prevFen # <<"none">>) => fen = prevFen

\* C4 amended: two calls with the same 64 labels return strings with the same
\* board field, and the same string whenever the turn token they accept from
\* standard input is the same; tokens rejected before it leave no trace
C4_SameLabelsAndTurnSameString ==
    (FenReturned /\ prevFen # <<"none">>) =>
        /\ BoardField(fen) = BoardField(prevFen)
        /\ (turn = prevTurn => fen = prevFen)

C4_Witness ==
    /\ FenReturned
    /\ prevFen # <<"none">>
    /\ turn = prevTurn
    /\ prompts = calls + 1
    /\ squareLabels # AllEmptyLabels

\* how often the value c occurs in the sequence f
CountOf(f, c) == Cardinality({i \in 1..Len(f) : f[i] = c})

\* C25: for 64 valid labels the returned string is the board field, one space,
\* the turn indicator 'w' or 'b', and the suffix " - - 0 0"; the turn indicator
\* is no part of the board field, whose letters are the pieces of the labels
C25_TurnFollowsBoardField ==
    FenReturned =>
        /\ turn \in {"w", "b"}
        /\ fen = BoardField(fen) \o <<" ", turn, " ", "-", " ", "-", " ", "0", " ", "0">>
        /\ BoardField(fen) # <<>>
        /\ CountOf(BoardField(fen), "w") = 0
        /\ CountOf(BoardField(fen), "b") = CountOf(squareLabels, "bb")

\* black to move on a board with a black bishop
C25_Witness ==
    /\ FenReturned
    /\ turn = "b"
    /\ CountOf(squareLabels, "bb") = 1
    /\ CountOf(fen, "b") = 2

UnknownLabels == {i \in 1..Len(squareLabels) : squareLabels[i] \notin PieceKeys \cup {"ee"}}

FenCharacters ==
    {"P", "N", "B", "R", "Q", "K", "p", "n", "b", "r", "q", "k", "/"} \cup {Digits[k] : k \in 1..10}

\* C27: a 64-label input with a label that is neither "ee" nor a key of
\* pieceToFen ends in an exception: no string is returned, no turn is asked
\* for, and no character was emitted in place of the unknown label
C27_UnknownLabelThrows ==
    (Len(squareLabels) = BoardSquares /\ UnknownLabels # {}) =>
        /\ fenPc \in {"idle", "thrown"}
        /\ prompts = 0
        /\ \A i \in 1..Len(fen) : fen[i] \in FenCharacters
        /\ CountOf(fen, "P") + CountOf(fen, "k") + CountOf(fen, "b") <= 2

\* the empty label computeHistogramDiffs returns for an empty corpus, after a piece
C27_Witness ==
    /\ fenPc = "thrown"
    /\ Len(squareLabels) = BoardSquares
    /\ squareLabels[1] = "wp"
    /\ squareLabels[2] = ""
    /\ fen = <<"P">>

\* C28: a call on 64 labels that waits for the turn returns in the step that
\* reads "w" or "b" and in no other; any other token makes it prompt again and
\* leaves the string built so far unchanged; and it does return when standard
\* input does supply "w" or "b"
C28_ReturnsOnlyOnTurnToken ==
    /\ [][fenPc = "prompt" =>
            /\ (fenPc' = "returned") <=> (turn' \in {"w", "b"})
            /\ (turn' \notin {"w", "b"}) =>
                   (fenPc' = "prompt" /\ prompts' = prompts + 1 /\ fen' = fen)
            /\ BoardField(fen') = BoardField(fen)]_vars
    /\ [][(fenPc' = "returned" /\ Len(squareLabels) = BoardSquares /\ fenPc # "returned") =>
            (fenPc = "prompt" /\ turn' \in {"w", "b"})]_vars
    /\ (fenPc = "prompt") ~> (fenPc = "returned")

\* a first call that returned on "w" after a token that was rejected
C28_Witness ==
    /\ FenReturned
    /\ calls = 1
    /\ prompts = 2
    /\ turn = "w"

-----------------------------------------------------------------------------
(* processingOps.cpp: comparePoints *)

Pt(x, y) == [nx |-> x, ny |-> y, d |-> 1]

\* a/b < c/d and a/b <= c/d for b, d > 0
RatLess(a, b, c, d) == a * d < c * b
RatLeq(a, b, c, d) == a * d <= c * b

\* float ySlack = 8.0;
ySlack == 8

\* a comparator that leaves out the test that p1 is not in a row below p2
comparePointsNoRowTest(p1, p2) ==
    \/ RatLess(p1.ny + ySlack * p1.d, p1.d, p2.ny, p2.d)
    \/ /\ RatLess(p2.ny, p2.d, p1.ny + ySlack * p1.d, p1.d)
       /\ RatLess(p1.nx, p1.d, p2.nx, p2.d)

\* a comparator that sorts by x with the slack first and by y after it
comparePointsByColumn(p1, p2) ==
    \/ RatLess(p1.nx + ySlack * p1.d, p1.d, p2.nx, p2.d)
    \/ /\ RatLess(p2.nx, p2.d, p1.nx + ySlack * p1.d, p1.d)
       /\ RatLess(p1.nx, p1.d, p2.nx + ySlack * p2.d, p2.d)
       /\ RatLess(p1.ny, p1.d, p2.ny, p2.d)

\* bool comparePoints(const cv::Point2f &p1, const cv::Point2f &p2)
comparePoints(p1, p2) ==
    \/ RatLess(p1.ny + ySlack * p1.d, p1.d, p2.ny, p2.d)
    \/ /\ RatLess(p2.ny, p2.d, p1.ny + ySlack * p1.d, p1.d)
       /\ RatLess(p1.ny, p1.d, p2.ny + ySlack * p2.d, p2.d)
       /\ RatLess(p1.nx, p1.d, p2.nx, p2.d)

CmpPoints == {Pt(x, 4 * k) : x \in 0..MaxCmpX, k \in 0..MaxCmpRows}

InitCmp ==
    /\ PieceIdle
    /\ FenIdle
    /\ SolverIdle
    /\ GridIdle
    /\ cmpPts \in [1..3 -> CmpPoints]
    /\ cmpRes = <<>>
    /\ cmpPc = "idle"

\* the calls comparePoints(a, b) for every two of the points
ComparePoints ==
    /\ cmpPc = "idle"
    /\ cmpRes' = [i \in 1..3 |-> [j \in 1..3 |-> comparePoints(cmpPts[i], cmpPts[j])]]
    /\ cmpPc' = "done"
    /\ UNCHANGED <<cmpPts, fenVars, solverVars, gridVars, pieceVars>>

NextCmp == ComparePoints

SpecCmp == InitCmp /\ [][NextCmp]_vars

\* C6: a point whose y is smaller than another's by more than the slack of 8
\* precedes it, and is not preceded by it, whatever the x coordinates
C6_LowerRowSortsFirst ==
    cmpPc = "done" =>
        \A i, j \in 1..3 :
            (cmpPts[j].ny * cmpPts[i].d - cmpPts[i].ny * cmpPts[j].d > 8 * cmpPts[i].d * cmpPts[j].d)
                => (cmpRes[i][j] /\ ~cmpRes[j][i])

C6_Witness ==
    /\ cmpPc = "done"
    /\ cmpPts[1].ny + 8 < cmpPts[2].ny
    /\ cmpPts[1].nx > cmpPts[2].nx
    /\ cmpRes[1][2]

\* C7: comparePoints is a strict weak ordering: irreflexive, asymmetric,
\* transitive, and with a transitive incomparability relation
C7_StrictWeakOrdering ==
    cmpPc = "done" =>
        LET before(i, j) == cmpRes[i][j]
            incomparable(i, j) == ~cmpRes[i][j] /\ ~cmpRes[j][i]
        IN  /\ \A i \in 1..3 : ~before(i, i)
            /\ \A i, j \in 1..3 : before(i, j) => ~before(j, i)
            /\ \A i, j, k \in 1..3 : (before(i, j) /\ before(j, k)) => before(i, k)
            /\ \A i, j, k \in 1..3 :
                   (incomparable(i, j) /\ incomparable(j, k)) => incomparable(i, k)

-----------------------------------------------------------------------------
(* processingOps.cpp: checkIntersection, arePointsNearby, getIntersections *)

\* cv::Size newSize(428, 524): the working image, which is both imageSize and dst
ImageWidth == 428
ImageHeight == 524

\* the border margin and the radius of getIntersections
Margin == 25
DedupRadius == 30

Abs(n) == IF n < 0 THEN -n ELSE n

RECURSIVE Gcd(_, _)
Gcd(a, b) == IF b = 0 THEN a ELSE Gcd(b, a % b)

\* the point (x/d, y/d), d # 0, in lowest terms with a positive denominator
Normal(x, y, d) ==
    LET g == Gcd(Gcd(Abs(x), Abs(y)), Abs(d))
        sg == IF d < 0 THEN -1 ELSE 1
    IN  [nx |-> sg * (x \div g), ny |-> sg * (y \div g), d |-> sg * (d \div g)]

\* a test that never takes two directions for parallel
BelowEpsilonNever(cross) == FALSE

\* std::abs(cross) < 1e-8: cross is computed from whole numbers, without
\* rounding for segments inside the working image, so that its magnitude is a
\* whole number and is below 1e-8 exactly when it is 0
BelowEpsilon(cross) == Abs(cross) < 1

\* bool checkIntersection(line1, line2, imageSize, r): [found, r, divided];
\* divided tells that the division by cross was made
checkIntersection(line1, line2, width, height) ==
    LET o1x == line1[1]
        o1y == line1[2]
        xx == line2[1] - line1[1]
        xy == line2[2] - line1[2]
        d1x == line1[3] - line1[1]
        d1y == line1[4] - line1[2]
        d2x == line2[3] - line2[1]
        d2y == line2[4] - line2[2]
        cross == d1x * d2y - d1y * d2x
        num == xx * d2y - xy * d2x
    IN  IF BelowEpsilon(cross)
        THEN [found |-> FALSE, r |-> Pt(0, 0), divided |-> FALSE]
        ELSE IF cross = 0
        \* a division by zero gives an infinity or a NaN, which fails the test of the return
        THEN [found |-> FALSE, r |-> Pt(0, 0), divided |-> TRUE]
        ELSE LET r == Normal(o1x * cross + d1x * num, o1y * cross + d1y * num, cross)
             IN  [found |-> /\ r.nx >= 0
                            /\ r.ny >= 0
                            /\ RatLess(r.nx, r.d, width, 1)
                            /\ RatLess(r.ny, r.d, height, 1),
                  r |-> r, divided |-> TRUE]

\* distMacro(a, b) <= distance, compared on the squares
WithinDistance(a, b, distance) ==
    LET dx == a.nx * b.d - b.nx * a.d
        dy == a.ny * b.d - b.ny * a.d
    IN  dx * dx + dy * dy <= distance * distance * (a.d * b.d) * (a.d * b.d)

\* a test that leaves out the points exactly at the distance (dist < distance)
arePointsNearbyStrict(point, points, distance) ==
    \E k \in 1..Len(points) :
        LET dx == point.nx * points[k].d - points[k].nx * point.d
            dy == point.ny * points[k].d - points[k].ny * point.d
        IN  dx * dx + dy * dy <
                distance * distance * (point.d * points[k].d) * (point.d * points[k].d)

\* a test that takes a point for nearby when it is close along either axis alone
arePointsNearbyAnyAxis(point, points, distance) ==
    \E k \in 1..Len(points) :
        \/ Abs(point.nx * points[k].d - points[k].nx * point.d) <= distance * point.d * points[k].d
        \/ Abs(point.ny * points[k].d - points[k].ny * point.d) <= distance * point.d * points[k].d

\* bool arePointsNearby(point, points, distance)
arePointsNearby(point, points, distance) ==
    \E k \in 1..Len(points) : WithinDistance(point, points[k], distance)

\* a test that accepts every point strictly inside the image, the border included
InsideImage(r, cols, rows) ==
    /\ RatLess(0, 1, r.nx, r.d)
    /\ RatLess(r.nx, r.d, cols, 1)
    /\ RatLess(0, 1, r.ny, r.d)
    /\ RatLess(r.ny, r.d, rows, 1)

\* the test of line 197 on an intersection found by checkIntersection
InsideMargin(r, cols, rows) ==
    /\ RatLess(Margin, 1, r.nx, r.d)
    /\ RatLess(r.nx, r.d, cols - Margin, 1)
    /\ RatLess(Margin, 1, r.ny, r.d)
    /\ RatLess(r.ny, r.d, rows - Margin, 1)

\* the inner loop of getIntersections for the line i, from the line j on, 1-based
RECURSIVE IntersectRow(_, _, _, _)
IntersectRow(ls, i, j, acc) ==
    IF j > Len(ls) THEN acc
    ELSE LET c == checkIntersection(ls[i], ls[j], ImageWidth, ImageHeight)
             keep == /\ c.found
                     /\ InsideMargin(c.r, ImageWidth, ImageHeight)
                     /\ ~arePointsNearby(c.r, acc, DedupRadius)
         IN  IF keep THEN IntersectRow(ls, i, j + 1, Append(acc, c.r))
                     ELSE IntersectRow(ls, i, j + 1, acc)

\* the two nested loops of getIntersections from the pair (i, j) on, 1-based
RECURSIVE IntersectLoop(_, _, _, _)
IntersectLoop(ls, i, j, acc) ==
    IF i > Len(ls) THEN acc
    ELSE LET row == IntersectRow(ls, i, j, acc)
         IN  IF Len(row) < Len(acc) THEN acc   \* never: the inner loop only appends
             ELSE IntersectLoop(ls, i + 1, i + 2, row)

Range(seq) == {seq[k] : k \in 1..Len(seq)}

\* the sequences that hold every element of the set S once
RECURSIVE PermsOf(_)
PermsOf(S) ==
    IF S = {} THEN {<<>>}
    ELSE UNION {{<<x>> \o q : q \in PermsOf(S \ {x})} : x \in S}

\* the requirement std::sort puts on its comparator, over the points of S
IsStrictWeakOn(S) ==
    /\ \A a \in S : ~comparePoints(a, a)
    /\ \A a, b, c \in S : (comparePoints(a, b) /\ comparePoints(b, c)) => comparePoints(a, c)
    /\ \A a, b, c \in S :
           (/\ ~comparePoints(a, b) /\ ~comparePoints(b, a)
            /\ ~comparePoints(b, c) /\ ~comparePoints(c, b))
               => (~comparePoints(a, c) /\ ~comparePoints(c, a))

IsTotalOn(S) == \A a, b \in S : a # b => (comparePoints(a, b) \/ comparePoints(b, a))

\* std::sort(begin, end, comparePoints) on distinct points: the sorted sequence
\* when the comparator is a strict weak ordering of them (any order among
\* equivalent points), and any rearrangement when it is not (undefined behaviour)
SortOutcomes(seq) ==
    LET S == Range(seq)
    IN  IF IsStrictWeakOn(S)
        THEN IF IsTotalOn(S)
             THEN {[k \in 1..Len(seq) |->
                       CHOOSE p \in S : Cardinality({q \in S : comparePoints(q, p)}) = k - 1]}
             ELSE {q \in PermsOf(S) :
                       \A a, b \in 1..Len(q) : a < b => ~comparePoints(q[b], q[a])}
        ELSE PermsOf(S)

(* Inputs of the solver: segments of a small board drawing *)

CandidateLines ==
    << <<30, 100, 400, 100>>,     \* horizontal, y = 100
       <<30, 130, 400, 130>>,     \* horizontal, y = 130: 30 below the first
       <<30, 200, 400, 200>>,     \* horizontal, y = 200
       <<100, 30, 100, 500>>,     \* vertical, x = 100
       <<200, 30, 200, 500>>,     \* vertical, x = 200
       <<150, 30, 150, 500>>,     \* vertical, x = 150
       <<10, 30, 10, 500>>,       \* vertical inside the border margin
       <<50, 50, 50, 50>>,        \* a segment of length zero
       <<40, 70, 400, 250>>,      \* slope 1/2 through (100, 100)
       <<40, 120, 360, 80>>,      \* slope -1/8 through (200, 100)
       <<200, 100, 420, 100>> >>  \* horizontal, on the line of the first

\* the elements of s whose indices are in I, in increasing or decreasing index order
RECURSIVE Pick(_, _, _)
Pick(s, I, up) ==
    IF I = {} THEN <<>>
    ELSE LET k == CHOOSE m \in I : \A n \in I : IF up THEN m <= n ELSE m >= n
         IN  <<s[k]>> \o Pick(s, I \ {k}, up)

InputLines ==
    {Pick(CandidateLines, I, up) :
        I \in {J \in SUBSET (1..Len(CandidateLines)) : Cardinality(J) <= MaxLines},
        up \in BOOLEAN}

InitSolver ==
    /\ PieceIdle
    /\ FenIdle
    /\ CmpIdle
    /\ GridIdle
    /\ lines \in InputLines
    /\ intersections = <<>>
    /\ solverPc = "idle"
    /\ solverRet = -1

\* int getIntersections(dst, lines, imageSize, intersections, showIntersections)
GetIntersections ==
    /\ solverPc = "idle"
    /\ intersections' \in SortOutcomes(IntersectLoop(lines, 1, 2, intersections))
    /\ solverPc' = "done"
    /\ solverRet' = 0
    /\ UNCHANGED <<lines, fenVars, cmpVars, gridVars, pieceVars>>

NextSolver == GetIntersections

SpecSolver == InitSolver /\ [][NextSolver]_vars

\* the intersections of the input segments that pass the tests of lines 192-197
ValidCandidates ==
    LET all == {checkIntersection(lines[pr[1]], lines[pr[2]], ImageWidth, ImageHeight) :
                    pr \in {q \in (1..Len(lines)) \X (1..Len(lines)) : q[1] < q[2]}}
    IN  {c.r : c \in {x \in all : x.found /\ InsideMargin(x.r, ImageWidth, ImageHeight)}}

\* C5: after getIntersections has run on an empty output vector, any two of the
\* points it returns are more than 30 apart
C5_NoTwoPointsWithinRadius ==
    solverPc = "done" =>
        \A a, b \in 1..Len(intersections) :
            a # b =>
                LET p == intersections[a]
                    q == intersections[b]
                    dx == p.nx * q.d - q.nx * p.d
                    dy == p.ny * q.d - q.ny * p.d
                IN  dx * dx + dy * dy > 30 * 30 * (p.d * q.d) * (p.d * q.d)

C5_Witness ==
    /\ solverPc = "done"
    /\ Len(intersections) >= 3
    /\ Cardinality(ValidCandidates) > Len(intersections)

\* C11: when getIntersections leaves a number of points other than 81, it does
\* not return the success value 0
C11_WrongCountIsNotSuccess ==
    (solverPc = "done" /\ Len(intersections) # 81) => solverRet # 0

\* C17: every point getIntersections returns, started on an empty vector, has
\* 25 < x < W - 25 and 25 < y < H - 25 for the working image of W x H
C17_PointsInsideMargin ==
    solverPc = "done" =>
        \A k \in 1..Len(intersections) :
            LET p == intersections[k]
            IN  /\ 25 * p.d < p.nx
                /\ p.nx < (ImageWidth - 25) * p.d
                /\ 25 * p.d < p.ny
                /\ p.ny < (ImageHeight - 25) * p.d

\* two of the input segments cross inside the image but within 25 of its border
C17_Witness ==
    /\ solverPc = "done"
    /\ Len(intersections) >= 1
    /\ \E i, j \in 1..Len(lines) :
           /\ i < j
           /\ checkIntersection(lines[i], lines[j], ImageWidth, ImageHeight).found
           /\ checkIntersection(lines[i], lines[j], ImageWidth, ImageHeight).r.nx < 25

\* the accepted candidates are mutually more than 30 apart
CandidatesFarApart ==
    \A p, q \in ValidCandidates :
        p # q =>
            LET dx == p.nx * q.d - q.nx * p.d
                dy == p.ny * q.d - q.ny * p.d
            IN  dx * dx + dy * dy > 30 * 30 * (p.d * q.d) * (p.d * q.d)

\* C18: when the intersections of the input segments that lie inside the bounds
\* and the margin are mutually more than 30 apart, the output holds every one
\* of them, once, with the coordinates checkIntersection computed
C18_DistinctCandidatesAllKept ==
    (solverPc = "done" /\ CandidatesFarApart) =>
        /\ Range(intersections) = ValidCandidates
        /\ Len(intersections) = Cardinality(ValidCandidates)

\* two horizontal and two vertical segments: the 4 corners of one square
C18_Witness ==
    /\ solverPc = "done"
    /\ CandidatesFarApart
    /\ Len(lines) = 4
    /\ Cardinality({k \in 1..4 : lines[k][2] = lines[k][4]}) = 2
    /\ Cardinality({k \in 1..4 : lines[k][1] = lines[k][3]}) = 2
    /\ Cardinality(ValidCandidates) = 4
    /\ Len(intersections) = 4

\* the cross product of the directions of two segments
CrossOf(line1, line2) ==
    (line1[3] - line1[1]) * (line2[4] - line2[2]) - (line1[4] - line1[2]) * (line2[3] - line2[1])

\* C23: checkIntersection reports no intersection and makes no division for
\* every pair of segments whose directions have a cross product of magnitude
\* below 1e-8 (parallel, collinear, or one of length zero), and divides by the
\* cross product only when its magnitude is at least the epsilon
C23_NoDivisionByNearZeroCross ==
    solverPc = "done" =>
        \A i, j \in 1..Len(lines) :
            LET c == checkIntersection(lines[i], lines[j], ImageWidth, ImageHeight)
            IN  /\ (CrossOf(lines[i], lines[j]) = 0) => (~c.found /\ ~c.divided)
                /\ c.divided => Abs(CrossOf(lines[i], lines[j])) >= 1

\* a run over two parallel segments, two on one line, one of length zero and
\* one that crosses them
C23_Witness ==
    /\ solverPc = "done"
    /\ \E i, j, k, m \in 1..Len(lines) :
           /\ i < j
           /\ lines[i][2] = lines[i][4] /\ lines[j][2] = lines[j][4]
           /\ lines[i][2] = lines[j][2]
           /\ lines[k][1] = lines[k][3] /\ lines[k][2] = lines[k][4]
           /\ checkIntersection(lines[i], lines[m], ImageWidth, ImageHeight).divided
    /\ \E i, j \in 1..Len(lines) :
           /\ lines[i][2] = lines[i][4] /\ lines[j][2] = lines[j][4]
           /\ lines[i][2] # lines[j][2]

-----------------------------------------------------------------------------
(* processingOps.cpp: setRectangles *)

\* corners in a row of the lattice, squares in a row of the board
CornersPerRow == 9
SquaresPerRow == 8

Min(a, b) == IF a <= b THEN a ELSE b
Max(a, b) == IF a >= b THEN a ELSE b

\* cvRound of n/d, d > 0 (saturate_cast<int>(float)): to the nearest integer, a tie to the even one
CvRound(n, d) ==
    LET fl == n \div d
        twice == 2 * (n - fl * d)
    IN  IF twice < d THEN fl
        ELSE IF twice > d THEN fl + 1
        ELSE IF fl % 2 = 0 THEN fl ELSE fl + 1

\* cv::Rect(pt, size) given the second point as a size
RectFromPointAndSize(p1, p2) ==
    [x |-> CvRound(p1.nx, p1.d), y |-> CvRound(p1.ny, p1.d),
     width |-> CvRound(p2.nx, p2.d), height |-> CvRound(p2.ny, p2.d)]

\* cv::Rect(cv::Point2f, cv::Point2f): both points converted to cv::Point, then
\* Rect_(pt1, pt2) with x = min, y = min, width = max - x, height = max - y
RectFromPoints(p1, p2) ==
    LET x1 == CvRound(p1.nx, p1.d)
        y1 == CvRound(p1.ny, p1.d)
        x2 == CvRound(p2.nx, p2.d)
        y2 == CvRound(p2.ny, p2.d)
    IN  [x |-> Min(x1, x2), y |-> Min(y1, y2),
         width |-> Max(x1, x2) - Min(x1, x2), height |-> Max(y1, y2) - Min(y1, y2)]

\* an index computed with the number of squares in a row
TopLeftIndexBySquares(row, col) == row * SquaresPerRow + col

\* intersections[row * 9 + col] and intersections[(row + 1) * 9 + (col + 1)], 0-based
TopLeftIndex(row, col) == row * CornersPerRow + col
BottomRightIndex(row, col) == (row + 1) * CornersPerRow + (col + 1)

\* operator[] of std::vector: the element, or what an out-of-range read finds
ReadPoint(pts, idx, garbage) == IF idx < Len(pts) THEN pts[idx + 1] ELSE garbage

\* the rectangle pushed for the k-th square, k = row * 8 + col, 0-based
RectOfSquare(pts, k, garbage) ==
    LET row == k \div SquaresPerRow
        col == k % SquaresPerRow
    IN  RectFromPoints(ReadPoint(pts, TopLeftIndex(row, col), garbage),
                       ReadPoint(pts, BottomRightIndex(row, col), garbage))

\* the indices the k-th iteration reads
ReadsOfSquare(k) ==
    {TopLeftIndex(k \div SquaresPerRow, k % SquaresPerRow),
     BottomRightIndex(k \div SquaresPerRow, k % SquaresPerRow)}

\* what an out-of-range read of the vector can find
GarbagePoints == {Pt(0, 0), Pt(-7, 3)}

(* Inputs of setRectangles: lattices in half pixels, rows shifted in x by
   shift per row, columns dropped in y by drop per column *)

LatticePoint(k, x0, pitch, shift, drop) ==
    LET row == k \div CornersPerRow
        col == k % CornersPerRow
    IN  Normal(x0 + col * pitch + row * shift, 80 + row * pitch + col * drop, 2)

Reverse(seq) == [k \in 1..Len(seq) |-> seq[Len(seq) + 1 - k]]

GridSizes ==
    {0} \cup ((CornersPerRow * CornersPerRow - MaxMissing)..(CornersPerRow * CornersPerRow + MaxMissing))

InputGrids ==
    {IF rev THEN Reverse([k \in 1..n |-> LatticePoint(k - 1, x0, pitch, shift, drop)])
            ELSE [k \in 1..n |-> LatticePoint(k - 1, x0, pitch, shift, drop)] :
        n \in GridSizes, x0 \in {120, 121}, pitch \in {80, 81},
        shift \in {-2, 0, 2}, drop \in {0, 1}, rev \in BOOLEAN}

InitGrid ==
    /\ PieceIdle
    /\ FenIdle
    /\ CmpIdle
    /\ SolverIdle
    /\ gridPoints \in InputGrids
    /\ rectangles = <<>>
    /\ gridPc = "idle"
    /\ gridRet = -1
    /\ oobReads = {}

\* int setRectangles(dst, intersections, rectangles, showRectangles)
SetRectangles ==
    /\ gridPc = "idle"
    /\ LET squares == 0..(SquaresPerRow * SquaresPerRow - 1)
           oob == {i \in UNION {ReadsOfSquare(k) : k \in squares} : i >= Len(gridPoints)}
       IN  IF oob = {}
           THEN /\ rectangles' = rectangles \o
                       [k \in 1..(SquaresPerRow * SquaresPerRow) |->
                           RectOfSquare(gridPoints, k - 1, Pt(0, 0))]
                /\ gridPc' = "done"
                /\ gridRet' = 0
                /\ oobReads' = {}
           \* undefined behaviour: the read past the end kills the process, or finds
           \* some value and the loop goes on
           ELSE \/ LET first == CHOOSE k \in squares :
                                    /\ \E i \in ReadsOfSquare(k) : i >= Len(gridPoints)
                                    /\ \A m \in 0..(k - 1) :
                                           \A i \in ReadsOfSquare(m) : i < Len(gridPoints)
                   IN  /\ rectangles' = rectangles \o
                              [k \in 1..first |-> RectOfSquare(gridPoints, k - 1, Pt(0, 0))]
                       /\ gridPc' = "crashed"
                       /\ gridRet' = -1
                       /\ oobReads' = {CHOOSE i \in ReadsOfSquare(first) :
                                           /\ i >= Len(gridPoints)
                                           /\ \A j \in ReadsOfSquare(first) :
                                                  j >= Len(gridPoints) => i <= j}
                \/ \E g \in GarbagePoints :
                       /\ rectangles' = rectangles \o
                              [k \in 1..(SquaresPerRow * SquaresPerRow) |->
                                  RectOfSquare(gridPoints, k - 1, g)]
                       /\ gridPc' = "done"
                       /\ gridRet' = 0
                       /\ oobReads' = oob
    /\ UNCHANGED <<gridPoints, fenVars, cmpVars, solverVars, pieceVars>>

NextGrid == SetRectangles

SpecGrid == InitGrid /\ [][NextGrid]_vars

-----------------------------------------------------------------------------
(* Properties of setRectangles *)

LatticeSize == CornersPerRow * CornersPerRow

\* the corner of lattice row r and column c, and the region of board row r and column c
CornerAt(r, c) == gridPoints[r * 9 + c + 1]
RegionAt(r, c) == rectangles[r * 8 + c + 1]

\* the integers within half a pixel of n/d
NearestPixels(n, d) == {k \in {n \div d, (n \div d) + 1} : 2 * Abs(k * d - n) <= d}

\* cv::Rect is half open: [x, x + width) by [y, y + height)
Overlap(a, b) ==
    /\ Max(a.x, b.x) < Min(a.x + a.width, b.x + b.width)
    /\ Max(a.y, b.y) < Min(a.y + a.height, b.y + b.height)

RegionsDisjoint ==
    \A i, j \in 1..Len(rectangles) : i # j => ~Overlap(rectangles[i], rectangles[j])

RegionsRowMajor ==
    /\ \A r \in 0..7, c \in 0..6 : RegionAt(r, c).x < RegionAt(r, c + 1).x
    /\ \A r \in 0..6, c \in 0..7 : RegionAt(r, c).y < RegionAt(r + 1, c).y

\* 81 points, each preceding every later one under comparePoints
SortedRowMajor ==
    /\ Len(gridPoints) = LatticeSize
    /\ \A i, j \in 1..LatticeSize : i < j => comparePoints(gridPoints[i], gridPoints[j])

\* 81 points in row-major order, the same x down a lattice column and the same
\* y along a lattice row, a pixel or more between neighbours
AxisAlignedLattice ==
    /\ Len(gridPoints) = LatticeSize
    /\ \A r, c \in 0..8 :
           /\ CornerAt(r, c).nx * CornerAt(0, c).d = CornerAt(0, c).nx * CornerAt(r, c).d
           /\ CornerAt(r, c).ny * CornerAt(r, 0).d = CornerAt(r, 0).ny * CornerAt(r, c).d
    /\ \A c \in 0..7 :
           RatLeq(CornerAt(0, c).nx + CornerAt(0, c).d, CornerAt(0, c).d,
                  CornerAt(0, c + 1).nx, CornerAt(0, c + 1).d)
    /\ \A r \in 0..7 :
           RatLeq(CornerAt(r, 0).ny + CornerAt(r, 0).d, CornerAt(r, 0).d,
                  CornerAt(r + 1, 0).ny, CornerAt(r + 1, 0).d)

C9_RegionCornersArePoints ==
    (gridPc = "done" /\ oobReads = {}) =>
        \A r, c \in 0..7 :
            LET a == CornerAt(r, c)
                b == CornerAt(r + 1, c + 1)
                reg == RegionAt(r, c)
            IN  /\ reg.x * a.d = a.nx
                /\ reg.y * a.d = a.ny
                /\ (reg.x + reg.width) * b.d = b.nx
                /\ (reg.y + reg.height) * b.d = b.ny

\* C9 amended: the region at row * 8 + col is the rectangle spanned by
\* point[row * 9 + col] and point[(row + 1) * 9 + (col + 1)], both rounded to
\* whole pixels; when the first is not right of or below the second, they are
\* its top-left and bottom-right corners
C9_RegionSpansRoundedPoints ==
    (gridPc = "done" /\ oobReads = {}) =>
        /\ Len(rectangles) = 64
        /\ \A r, c \in 0..7 :
            LET a == CornerAt(r, c)
                b == CornerAt(r + 1, c + 1)
                reg == RegionAt(r, c)
            IN  /\ \E xa \in NearestPixels(a.nx, a.d), xb \in NearestPixels(b.nx, b.d) :
                       reg.x = Min(xa, xb) /\ reg.x + reg.width = Max(xa, xb)
                /\ \E ya \in NearestPixels(a.ny, a.d), yb \in NearestPixels(b.ny, b.d) :
                       reg.y = Min(ya, yb) /\ reg.y + reg.height = Max(ya, yb)
                /\ (RatLeq(a.nx, a.d, b.nx, b.d) /\ RatLeq(a.ny, a.d, b.ny, b.d)) =>
                       /\ reg.x \in NearestPixels(a.nx, a.d)
                       /\ reg.y \in NearestPixels(a.ny, a.d)
                       /\ (reg.x + reg.width) \in NearestPixels(b.nx, b.d)
                       /\ (reg.y + reg.height) \in NearestPixels(b.ny, b.d)

C9_Witness ==
    /\ gridPc = "done"
    /\ oobReads = {}
    /\ Len(rectangles) = 64
    /\ CornerAt(3, 4).d = 2
    /\ RegionAt(3, 4).width > 0
    /\ RatLess(CornerAt(3, 4).nx, CornerAt(3, 4).d, CornerAt(4, 5).nx, CornerAt(4, 5).d)

\* C10: with fewer than 81 points setRectangles fails as a precondition
\* violation: it reads no element at or past the end and adds no region
C10_TooFewPointsRejected ==
    (gridPc # "idle" /\ Len(gridPoints) < LatticeSize) =>
        /\ gridPc = "rejected"
        /\ oobReads = {}
        /\ rectangles = <<>>

-----------------------------------------------------------------------------
(* pieceDetectionOps.cpp: computeHistogramIntersectionDifference *)

(* A bin (float) is a whole number of tenths: 1.0 is 10. *)
One == 10

\* operator[] of std::vector<float>, 1-based: the bin, or what an out-of-range read finds
ReadBin(h, i, garbage) == IF i <= Len(h) THEN h[i] ELSE garbage

\* what an out-of-range read of a vector of floats can find
GarbageBins == {0, One}

\* the 0-based indices i < a.size() the loop reads in b at or past b's end
OobBins(a, b) == {i - 1 : i \in {k \in 1..Len(a) : k > Len(b)}}

\* a sum that takes every bin of the first histogram whole
RECURSIVE FirstOnlySum(_, _, _, _)
FirstOnlySum(a, b, i, garbage) ==
    IF i > Len(a) THEN 0 ELSE a[i] + FirstOnlySum(a, b, i + 1, garbage)

\* the for loop of lines 339-343 from index i (1-based) on: the value added to intersection
RECURSIVE IntersectionSum(_, _, _, _)
IntersectionSum(a, b, i, garbage) ==
    IF i > Len(a) THEN 0
    ELSE Min(a[i], ReadBin(b, i, garbage)) + IntersectionSum(a, b, i + 1, garbage)

\* float computeHistogramIntersectionDifference(h1, h2): return 1.0 - intersection
computeHistogramIntersectionDifference(a, b, garbage) == One - IntersectionSum(a, b, 1, garbage)

(* Inputs: histograms with their weight in the first and the last bin *)

Weights ==
    {<<One, 0>>, <<0, One>>, <<One - 1, 1>>, <<One \div 2, One \div 2>>, <<One, One \div 2>>}

HistsOfLen(n) == {[k \in 1..n |-> IF k = 1 THEN w[1] ELSE IF k = n THEN w[2] ELSE 0] : w \in Weights}

Hists == UNION {HistsOfLen(n) : n \in (MaxBins - 1)..MaxBins}

NotCalled == [state |-> "none", value |-> 0]

InitDiff ==
    /\ FenIdle
    /\ CmpIdle
    /\ SolverIdle
    /\ GridIdle
    /\ SquareIdle
    /\ LabelIdle
    /\ FlowIdle
    /\ HistIdle
    /\ h1 \in Hists
    /\ h2 \in Hists
    /\ diffRes = <<NotCalled, NotCalled>>
    /\ diffOob = {}
    /\ diffMsgs = 0

\* one call of computeHistogramIntersectionDifference: on (h1, h2), or swapped on (h2, h1)
ComputeHistogramIntersectionDifference(swapped) ==
    LET a == IF swapped THEN h2 ELSE h1
        b == IF swapped THEN h1 ELSE h2
        slot == IF swapped THEN 2 ELSE 1
    IN  /\ diffRes[slot].state = "none"
        /\ \A k \in 1..2 : diffRes[k].state # "crashed"
        /\ diffMsgs' = IF Len(a) # Len(b) THEN diffMsgs + 1 ELSE diffMsgs
        /\ IF OobBins(a, b) = {}
           THEN /\ diffRes' = [diffRes EXCEPT ![slot] =
                       [state |-> "returned",
                        value |-> computeHistogramIntersectionDifference(a, b, 0)]]
                /\ UNCHANGED diffOob
           \* undefined behaviour: the read past the end of h2 kills the process, or
           \* finds some value and the loop goes on
           ELSE \/ /\ diffRes' = [diffRes EXCEPT ![slot] = [state |-> "crashed", value |-> 0]]
                   /\ diffOob' = diffOob \cup {Len(b)}
                \/ \E g \in GarbageBins :
                       /\ diffRes' = [diffRes EXCEPT ![slot] =
                              [state |-> "returned",
                               value |-> computeHistogramIntersectionDifference(a, b, g)]]
                       /\ diffOob' = diffOob \cup OobBins(a, b)
        /\ UNCHANGED <<h1, h2, fenVars, cmpVars, solverVars, gridVars, squareVars, labelVars, flowVars, histVars>>

NextDiff == \E swapped \in BOOLEAN : ComputeHistogramIntersectionDifference(swapped)

SpecDiff == InitDiff /\ [][NextDiff]_vars

RECURSIVE SumOfBins(_)
SumOfBins(h) == IF h = <<>> THEN 0 ELSE Head(h) + SumOfBins(Tail(h))

\* C13: for histograms of equal length the value returned for (h1, h2) is the
\* value returned for (h2, h1), and the value returned for two identical
\* histograms whose bins sum to 1 is 0
C13_SymmetricAndZeroOnSelf ==
    /\ (Len(h1) = Len(h2) /\ diffRes[1].state = "returned" /\ diffRes[2].state = "returned")
           => diffRes[1].value = diffRes[2].value
    /\ \A k \in 1..2 :
           (h1 = h2 /\ SumOfBins(h1) = 10 /\ diffRes[k].state = "returned")
               => diffRes[k].value = 0

C13_Witness ==
    /\ Len(h1) = Len(h2)
    /\ h1 # h2
    /\ SumOfBins(h1) # SumOfBins(h2)
    /\ diffRes[1].state = "returned"
    /\ diffRes[2].state = "returned"
    /\ diffRes[1].value > 0

\* C14: a call on two vectors of different lengths returns no value and reads
\* no element at or past the end of the shorter vector
C14_LengthMismatchReturnsNoValue ==
    Len(h1) # Len(h2) =>
        /\ \A k \in 1..2 : diffRes[k].state # "returned"
        /\ diffOob = {}

-----------------------------------------------------------------------------
(* pieceDetectionOps.cpp: isEmptySpace, computeHistogramDiffs, getNNPieceLabel *)

\* const std::string PIECE_VALUES[12]
PIECE_VALUES == <<"bb", "bk", "bn", "bp", "bq", "br", "wb", "wk", "wn", "wp", "wq", "wr">>

NumClasses == 12

\* return cannySum < 7000;
CannyLimit == 7000

\* float bestDiff = FLT_MAX, in tenths: above every value the difference takes
FLT_MAX == 2000000000

\* a region check that lets every region of non-negative size through
RoiUnchecked(rect, size) == rect.width >= 0 /\ rect.height >= 0

\* image(currentRect): cv::Mat::operator()(const cv::Rect &) asserts that the
\* region lies inside the matrix and throws cv::Exception when it does not
RoiInside(rect, size) ==
    /\ 0 <= rect.x
    /\ 0 <= rect.width
    /\ rect.x + rect.width <= size.cols
    /\ 0 <= rect.y
    /\ 0 <= rect.height
    /\ rect.y + rect.height <= size.rows

\* a comparison that also replaces the best entry by a later one that ties with it
BetterOrEqual(currentDiff, bestDiff) == currentDiff <= bestDiff

\* if (currentDiff < bestDiff)
Better(currentDiff, bestDiff) == currentDiff < bestDiff

\* the for loop of computeHistogramDiffs from entry i (1-based) on;
\* best = [diff, label], the values of bestDiff and bestLabel
RECURSIVE DiffsLoop(_, _, _, _, _, _)
DiffsLoop(query, labels, data, i, best, garbage) ==
    IF i > Len(labels) THEN best
    ELSE LET currentDiff == computeHistogramIntersectionDifference(query, data[i], garbage)
         IN  DiffsLoop(query, labels, data, i + 1,
                       IF Better(currentDiff, best.diff)
                       THEN [diff |-> currentDiff, label |-> labels[i]]
                       ELSE best,
                       garbage)

\* the entries (1-based) whose vector the loop reads past its end
ShortEntries(query, data) == {i \in 1..Len(data) : OobBins(query, data[i]) # {}}

\* what an out-of-range read of the table of labels can find
GarbageLabels == {"", "zz"}

(* Inputs *)

ImageSizes ==
    {[cols |-> ImageWidth, rows |-> ImageHeight], [cols |-> 2 * ImageWidth, rows |-> 2 * ImageHeight]}

\* a square inside the image, one across its right border, one wholly to the
\* right of it and one wholly above and left of it
SampleRects(size) ==
    {[x |-> 60, y |-> 40, width |-> 40, height |-> 40],
     [x |-> size.cols - 20, y |-> 40, width |-> 40, height |-> 40],
     [x |-> size.cols + 10, y |-> 40, width |-> 40, height |-> 40],
     [x |-> -50, y |-> -50, width |-> 40, height |-> 40]}

\* sums of a Canny edge image (pixels 0 or 255) on either side of the limit
CannySums == {0, 27 * 255, 28 * 255}

ClassIds == 0..(NumClasses + MaxExtraClasses - 1)

\* vectors of the corpus: the histograms of MaxBins bins and one that is a bin short
CorpusHists == HistsOfLen(MaxBins) \cup {[k \in 1..(MaxBins - 1) |-> IF k = 1 THEN One ELSE 0]}

Corpora ==
    UNION {[1..n -> [label : {"wp", "bp"}, data : CorpusHists]] : n \in 0..MaxCorpus}

InitPiece ==
    /\ FenIdle
    /\ CmpIdle
    /\ SolverIdle
    /\ GridIdle
    /\ DiffIdle
    /\ LabelIdle
    /\ FlowIdle
    /\ HistIdle
    /\ imageSize \in ImageSizes
    /\ features \in Hists
    /\ \E c \in Corpora :
           /\ corpusLabels = [k \in 1..Len(c) |-> c[k].label]
           /\ featureData = [k \in 1..Len(c) |-> c[k].data]
    /\ currentRect = NoRect
    /\ pieceOp = "none"
    /\ piecePc = "idle"
    /\ pieceLabel = ""
    /\ pieceEmpty = FALSE
    /\ pixelsRead = {}
    /\ tableReads = {}
    /\ histOob = {}

\* bool isEmptySpace(image, currentRect, isDarkSquare); cannySum is the sum of
\* the edge image of the square's pixels
IsEmptySpace(rect, cannySum) ==
    /\ piecePc = "idle"
    /\ pieceOp' = "isEmptySpace"
    /\ currentRect' = rect
    /\ IF ~RoiInside(rect, imageSize)
       THEN /\ piecePc' = "thrown"
            /\ UNCHANGED <<pieceEmpty, pixelsRead>>
       ELSE /\ piecePc' = "returned"
            /\ pixelsRead' = pixelsRead \cup {rect}
            /\ pieceEmpty' = (cannySum < CannyLimit)
    /\ UNCHANGED <<imageSize, features, corpusLabels, featureData, pieceLabel, tableReads, histOob>>
    /\ UNCHANGED <<fenVars, cmpVars, solverVars, gridVars, diffVars, labelVars, flowVars, histVars>>

\* std::string computeHistogramDiffs(image, currentRect, labels, featureData, nBins)
ComputeHistogramDiffs(rect) ==
    /\ piecePc = "idle"
    /\ pieceOp' = "computeHistogramDiffs"
    /\ currentRect' = rect
    /\ IF ~RoiInside(rect, imageSize)
       THEN /\ piecePc' = "thrown"
            /\ UNCHANGED <<pieceLabel, pixelsRead, histOob>>
       ELSE /\ pixelsRead' = pixelsRead \cup {rect}
            /\ LET short == ShortEntries(features, featureData)
                   start == [diff |-> FLT_MAX, label |-> ""]
               IN  IF short = {}
                   THEN /\ pieceLabel' =
                               DiffsLoop(features, corpusLabels, featureData, 1, start, 0).label
                        /\ piecePc' = "returned"
                        /\ UNCHANGED histOob
                   \* undefined behaviour: the read past the end of a corpus vector
                   \* kills the process, or finds some value and the loop goes on
                   ELSE \/ /\ piecePc' = "crashed"
                           /\ histOob' = {Len(featureData[CHOOSE i \in short :
                                              \A j \in short : i <= j])}
                           /\ UNCHANGED pieceLabel
                        \/ \E g \in GarbageBins :
                               /\ pieceLabel' =
                                      DiffsLoop(features, corpusLabels, featureData, 1, start, g).label
                               /\ piecePc' = "returned"
                               /\ histOob' = UNION {OobBins(features, featureData[i]) : i \in short}
    /\ UNCHANGED <<imageSize, features, corpusLabels, featureData, pieceEmpty, tableReads>>
    /\ UNCHANGED <<fenVars, cmpVars, solverVars, gridVars, diffVars, labelVars, flowVars, histVars>>

\* std::string getNNPieceLabel(image, currentRect); classId is the index of the
\* largest output of the classifier on the square
GetNNPieceLabel(rect, classId) ==
    /\ piecePc = "idle"
    /\ pieceOp' = "getNNPieceLabel"
    /\ currentRect' = rect
    /\ IF ~RoiInside(rect, imageSize)
       THEN /\ piecePc' = "thrown"
            /\ UNCHANGED <<pieceLabel, pixelsRead, tableReads>>
       ELSE /\ pixelsRead' = pixelsRead \cup {rect}
            /\ tableReads' = tableReads \cup {classId}
            /\ IF classId < NumClasses
               THEN /\ pieceLabel' = PIECE_VALUES[classId + 1]
                    /\ piecePc' = "returned"
               \* undefined behaviour: PIECE_VALUES[classId] past the end of the array
               ELSE \/ /\ piecePc' = "crashed"
                       /\ UNCHANGED pieceLabel
                    \/ \E g \in GarbageLabels :
                           /\ pieceLabel' = g
                           /\ piecePc' = "returned"
    /\ UNCHANGED <<imageSize, features, corpusLabels, featureData, pieceEmpty, histOob>>
    /\ UNCHANGED <<fenVars, cmpVars, solverVars, gridVars, diffVars, labelVars, flowVars, histVars>>

NextPiece ==
    \/ \E rect \in SampleRects(imageSize), cannySum \in CannySums : IsEmptySpace(rect, cannySum)
    \/ \E rect \in SampleRects(imageSize) : ComputeHistogramDiffs(rect)
    \/ \E rect \in SampleRects(imageSize), classId \in ClassIds : GetNNPieceLabel(rect, classId)

SpecPiece == InitPiece /\ [][NextPiece]_vars

\* the dissimilarity of a corpus vector b to the query a, over the bins of the query
Dissimilarity(a, b) == 10 - SumOfBins([k \in 1..Len(a) |-> IF a[k] <= b[k] THEN a[k] ELSE b[k]])

\* C15: for a non-empty corpus whose vectors have a bin for every bin of the
\* query, computeHistogramDiffs returns the label of the entry with the least
\* dissimilarity to the query, the first such entry in corpus order; with the
\* corpus wp = [1, 0, 0, 0], bp = [0, 0, 0, 1] and the query [0.9, 0, 0, 0.1]
\* it returns wp
C15_FirstMinimumLabel ==
    (/\ pieceOp = "computeHistogramDiffs"
     /\ piecePc = "returned"
     /\ Len(corpusLabels) >= 1
     /\ \A i \in 1..Len(featureData) : Len(featureData[i]) >= Len(features))
        => /\ \E i \in 1..Len(corpusLabels) :
                  /\ pieceLabel = corpusLabels[i]
                  /\ \A j \in 1..Len(corpusLabels) :
                         Dissimilarity(features, featureData[i]) <=
                             Dissimilarity(features, featureData[j])
                  /\ \A j \in 1..(i - 1) :
                         Dissimilarity(features, featureData[i]) <
                             Dissimilarity(features, featureData[j])
           /\ (/\ features = <<9, 0, 0, 1>>
               /\ corpusLabels = <<"wp", "bp">>
               /\ featureData = << <<10, 0, 0, 0>>, <<0, 0, 0, 10>> >>)
                  => pieceLabel = "wp"

\* the example of the claim
C15_Witness ==
    /\ pieceOp = "computeHistogramDiffs"
    /\ piecePc = "returned"
    /\ features = <<9, 0, 0, 1>>
    /\ corpusLabels = <<"wp", "bp">>
    /\ featureData = << <<10, 0, 0, 0>>, <<0, 0, 0, 10>> >>
    /\ pieceLabel = "wp"

\* a region of positive size with no pixel inside the image
EntirelyOutside(rect, size) ==
    /\ rect.width > 0
    /\ rect.height > 0
    /\ \/ rect.x >= size.cols
       \/ rect.y >= size.rows
       \/ rect.x + rect.width <= 0
       \/ rect.y + rect.height <= 0

\* C19: isEmptySpace, computeHistogramDiffs and getNNPieceLabel called on a
\* region wholly outside the image end in an exception: they return no value
\* and no label, and read no pixel of a region that is not inside the image
C19_OutsideRegionRejected ==
    /\ (pieceOp # "none" /\ EntirelyOutside(currentRect, imageSize)) =>
           /\ piecePc = "thrown"
           /\ pieceLabel = ""
           /\ tableReads = {}
    /\ \A r \in pixelsRead :
           /\ 0 <= r.x /\ r.x + r.width <= imageSize.cols
           /\ 0 <= r.y /\ r.y + r.height <= imageSize.rows

C19_Witness ==
    /\ pieceOp = "getNNPieceLabel"
    /\ EntirelyOutside(currentRect, imageSize)
    /\ currentRect.x < 0
    /\ piecePc = "thrown"

\* C20: in getNNPieceLabel a class index outside 0..11 is reported as a failure:
\* the table is read at no index outside 0..11 and no label is returned
C20_UnknownClassIndexRejected ==
    /\ \A k \in tableReads : 0 <= k /\ k <= 11
    /\ (pieceOp = "getNNPieceLabel" /\ \E k \in tableReads : k > 11) => piecePc # "returned"

\* C30: every label of PIECE_VALUES (class indices 0..11) is a key of
\* pieceToFen, the 12 labels are pairwise distinct, pieceToFen maps its 12 keys
\* to 12 distinct characters, and no label of the table is the empty label "ee":
\* the label getNNPieceLabel returns for a class index in 0..11 is a key of
\* pieceToFen whose character the label of no other class index has
C30_ClassLabelsEncodeDistinctly ==
    /\ Len(PIECE_VALUES) = 12
    /\ \A i \in 1..12 : PIECE_VALUES[i] \in DOMAIN pieceToFen /\ PIECE_VALUES[i] # "ee"
    /\ \A i, j \in 1..12 : i # j => PIECE_VALUES[i] # PIECE_VALUES[j]
    /\ Cardinality(DOMAIN pieceToFen) = 12
    /\ \A k, l \in DOMAIN pieceToFen : k # l => pieceToFen[k] # pieceToFen[l]
    /\ "ee" \notin DOMAIN pieceToFen
    /\ (/\ pieceOp = "getNNPieceLabel"
        /\ piecePc = "returned"
        /\ \A c \in tableReads : 0 <= c /\ c <= 11)
           => /\ pieceLabel \in DOMAIN pieceToFen
              /\ pieceLabel # "ee"
              /\ \A c \in tableReads : pieceLabel = PIECE_VALUES[c + 1]
              /\ \A c \in 0..11 :
                     c \notin tableReads => pieceToFen[PIECE_VALUES[c + 1]] # pieceToFen[pieceLabel]

\* the classifier answers class 3, the black pawn
C30_Witness ==
    /\ pieceOp = "getNNPieceLabel"
    /\ piecePc = "returned"
    /\ tableReads = {3}
    /\ pieceLabel = "bp"
    /\ pieceToFen[pieceLabel] = "p"

-----------------------------------------------------------------------------
(* pieceDetectionOps.cpp: getPieceLabels, getPieceLabelsNN *)

\* isDarkSquare = !isDarkSquare, for every square
FlipAlways(current, isDarkSquare) == ~isDarkSquare

\* a flip that is left out after the first square of a row instead of after the last
FlipUnlessRowStart(current, isDarkSquare) == IF current % 8 # 0 THEN ~isDarkSquare ELSE isDarkSquare

\* if (current % 8 != 7) isDarkSquare = !isDarkSquare
FlipUnlessRowEnd(current, isDarkSquare) == IF current % 8 # 7 THEN ~isDarkSquare ELSE isDarkSquare

(* The image, square by square: what stands on the square decides the edge sum
   isEmptySpace finds, the histogram getHistogramFeature computes and the class
   the classifier answers.  Square 0 of the board is a light square. *)

Contents == {"wp", "bk"}

ShownDark(current) == ((current \div 8) + (current % 8)) % 2 = 1

CannyOf(content) == IF content = "none" THEN 0 ELSE 28 * 255

\* a white pawn on a light square and a black king on a dark square fill the
\* first bin, the other two the last bin
FeaturesOf(content, dark) ==
    IF (content = "wp") = (~dark) THEN <<One - 1, 0, 0, 1>> ELSE <<1, 0, 0, One - 1>>

ClassOf(content) == CHOOSE k \in 0..(NumClasses - 1) : PIECE_VALUES[k + 1] = content

LightCorpus ==
    << [label |-> "wp", data |-> <<One, 0, 0, 0>>], [label |-> "bk", data |-> <<0, 0, 0, One>>] >>

DarkCorpus ==
    << [label |-> "wp", data |-> <<0, 0, 0, One>>], [label |-> "bk", data |-> <<One, 0, 0, 0>>] >>

\* both feature files as labelled, or the file of the dark squares missing
\* (read_image_data_csv then leaves its vectors empty)
CsvInputs ==
    {[light |-> LightCorpus, dark |-> DarkCorpus], [light |-> LightCorpus, dark |-> <<>>]}

\* the squares (0-based) that may hold a piece: the end of the first row, the
\* start of the second and the last square
OccupiedSquares == {7, 8, 63}

ContentPlacements ==
    UNION {[S -> Contents] : S \in {T \in SUBSET OccupiedSquares : Cardinality(T) <= MaxPieces}}

BoardImages ==
    {[i \in 1..BoardSquares |-> IF (i - 1) \in DOMAIN pl THEN pl[i - 1] ELSE "none"] :
        pl \in ContentPlacements}

ContentAt(image, k) == IF k \in DOMAIN image THEN image[k] ELSE "none"

BoardLattice == [k \in 1..(CornersPerRow * CornersPerRow) |-> LatticePoint(k - 1, 120, 80, 0, 0)]

\* the vector setRectangles builds from the points pts
RegionsOf(pts, garbage) ==
    [k \in 1..(SquaresPerRow * SquaresPerRow) |-> RectOfSquare(pts, k - 1, garbage)]

\* the 64 regions of the lattice, their first 64 - MaxExtra .. 63, none at all,
\* and the 64 regions built from 80 points and an out-of-range read
LabelRegions ==
    {SubSeq(RegionsOf(BoardLattice, Pt(0, 0)), 1, n) :
        n \in {0} \cup ((BoardSquares - MaxExtra)..BoardSquares)}
    \cup {RegionsOf(SubSeq(BoardLattice, 1, Len(BoardLattice) - 1), g) : g \in GarbagePoints}

(* cv::putText(dst, label, cv::Point(x + 0.25 * width, y + 0.6 * height),
   cv::FONT_HERSHEY_DUPLEX, 3.0, ..., 4): the text starts at the origin, runs to
   the right by the advance of its letters and rises from the base line by the
   height of its small letters.  GlyphUnits and XHeightUnits are lower bounds
   of both in units of the font, which putText multiplies by the font scale. *)

FontScale == 3
GlyphUnits == 16
XHeightUnits == 14

\* the conversion of a non-negative double to the int of cv::Point: num / den truncated
Truncated(num, den) == num \div den

TextBox(rect, label) ==
    LET ox == rect.x + Truncated(25 * rect.width, 100)
        oy == rect.y + Truncated(6 * rect.height, 10)
    IN  [x |-> ox, y |-> oy - XHeightUnits * FontScale + 1,
         width |-> Len(label) * GlyphUnits * FontScale, height |-> XHeightUnits * FontScale]

RectsMeet(a, b) ==
    /\ a.x < b.x + b.width
    /\ b.x < a.x + a.width
    /\ a.y < b.y + b.height
    /\ b.y < a.y + a.height

\* the region rect holds pixels of a text drawn for one of the first n regions;
\* texts are the labels pushed for them
Annotated(rect, rects, texts, n) ==
    \E i \in 1..n : RectsMeet(rect, TextBox(rects[i], texts[i]))

\* the histogram of a region that holds green pixels of an annotation: they
\* fall into a bin of their own (r = 0, g = 1)
AnnotatedFeatures(f) ==
    LET top == CHOOSE i \in 1..Len(f) : \A j \in 1..Len(f) : f[j] <= f[i]
    IN  [i \in 1..Len(f) |-> IF i = top THEN f[i] - 1 ELSE IF i = 2 THEN f[i] + 1 ELSE f[i]]

\* the for loop of getPieceLabels (nn = FALSE) and of getPieceLabelsNN (nn = TRUE)
\* from the k-th region on (1-based); st = [labels, flags, thrown, dirty]: dirty
\* are the regions (0-based) whose labelling read pixels of an annotation.
\* isEmptySpace reads temp, the copy taken before the loop; computeHistogramDiffs
\* and getNNPieceLabel read dst, on which the annotations are drawn.
RECURSIVE LabelLoop(_, _, _, _, _, _, _, _, _)
LabelLoop(rects, size, image, csv, k, isDarkSquare, st, nn, show) ==
    IF k > Len(rects) \/ st.thrown THEN st
    ELSE LET currentRect_ == rects[k]
             current == k - 1
             content == ContentAt(image, k)
             flags == Append(st.flags, isDarkSquare)
         IN  \* isEmptySpace: image(currentRect) throws
             IF ~RoiInside(currentRect_, size)
             THEN [st EXCEPT !.flags = flags, !.thrown = TRUE]
             ELSE LET corpus == IF isDarkSquare THEN csv.dark ELSE csv.light
                      empty == CannyOf(content) < CannyLimit
                      pushed == SubSeq(st.labels, Len(st.labels) - current + 1, Len(st.labels))
                      readsDrawn ==
                          ~empty /\ show /\ Annotated(currentRect_, rects, pushed, current)
                      clean == FeaturesOf(content, ShownDark(current))
                      currentLabel ==
                          IF empty THEN "ee"
                          ELSE IF nn THEN PIECE_VALUES[ClassOf(content) + 1]
                          ELSE DiffsLoop(IF readsDrawn THEN AnnotatedFeatures(clean) ELSE clean,
                                         [i \in 1..Len(corpus) |-> corpus[i].label],
                                         [i \in 1..Len(corpus) |-> corpus[i].data],
                                         1, [diff |-> FLT_MAX, label |-> ""], 0).label
                      next == [labels |-> Append(st.labels, currentLabel),
                               flags |-> flags,
                               thrown |-> FALSE,
                               dirty |-> IF readsDrawn THEN st.dirty \cup {current} ELSE st.dirty]
                  IN  IF Len(next.labels) > Len(st.labels)
                      THEN LabelLoop(rects, size, image, csv, k + 1,
                                     IF nn THEN FlipAlways(current, isDarkSquare)
                                           ELSE FlipUnlessRowEnd(current, isDarkSquare),
                                     next, nn, show)
                      ELSE next   \* never: every iteration pushes a label

InitLabels ==
    /\ FenIdle
    /\ CmpIdle
    /\ SolverIdle
    /\ DiffIdle
    /\ FlowIdle
    /\ HistIdle
    /\ SquareNotCalled
    /\ gridPoints = <<>>
    /\ rectangles \in LabelRegions
    /\ gridPc = "unused"
    /\ gridRet = -1
    /\ oobReads = {}
    /\ imageSize \in ImageSizes
    /\ boardImage \in BoardImages
    /\ csvData \in CsvInputs
    /\ showLabels \in BOOLEAN
    /\ labelPc = "idle"
    /\ labelRet = -1
    /\ histFlags = <<>>
    /\ dirtyReads = {}
    /\ nnDirtyReads = {}
    /\ nnLabels = <<>>
    /\ nnPc = "idle"
    /\ nnRet = -1
    /\ nnFlags = <<>>
    /\ CorpusIdle

\* int getPieceLabels(dst, rectangles, squareLabels, showLabels)
GetPieceLabels ==
    /\ labelPc = "idle"
    /\ LET st == LabelLoop(rectangles, imageSize, boardImage, csvData, 1, FALSE,
                           [labels |-> squareLabels, flags |-> <<>>, thrown |-> FALSE,
                            dirty |-> {}], FALSE, showLabels)
       IN  /\ squareLabels' = st.labels
           /\ histFlags' = st.flags
           /\ dirtyReads' = st.dirty
           /\ labelPc' = IF st.thrown THEN "thrown" ELSE "done"
           /\ labelRet' = IF st.thrown THEN -1 ELSE 0
    /\ UNCHANGED <<fen, fenPc, turn, prompts, currentEmpty, calls, prevFen, prevTurn>>
    /\ UNCHANGED <<boardImage, showLabels, nnLabels, nnPc, nnRet, nnFlags, nnDirtyReads>>
    /\ UNCHANGED <<csvData, corpusPc, corpusFlags, corpusRows>>
    /\ UNCHANGED <<cmpVars, solverVars, gridVars, diffVars, squareVars, flowVars, histVars>>

\* int getPieceLabelsNN(dst, rectangles, squareLabels, showLabels), on a vector of its own
GetPieceLabelsNN ==
    /\ nnPc = "idle"
    /\ LET st == LabelLoop(rectangles, imageSize, boardImage, csvData, 1, FALSE,
                           [labels |-> nnLabels, flags |-> <<>>, thrown |-> FALSE,
                            dirty |-> {}], TRUE, showLabels)
       IN  /\ nnLabels' = st.labels
           /\ nnFlags' = st.flags
           /\ nnDirtyReads' = st.dirty
           /\ nnPc' = IF st.thrown THEN "thrown" ELSE "done"
           /\ nnRet' = IF st.thrown THEN -1 ELSE 0
    /\ UNCHANGED <<boardImage, showLabels, labelPc, labelRet, histFlags, dirtyReads>>
    /\ UNCHANGED <<csvData, corpusPc, corpusFlags, corpusRows>>
    /\ UNCHANGED <<fenVars, cmpVars, solverVars, gridVars, diffVars, squareVars, flowVars, histVars>>

NextLabels == GetPieceLabels \/ GetPieceLabelsNN

SpecLabels == InitLabels /\ [][NextLabels]_vars

\* C16: run over the same 64 regions, getPieceLabels and getPieceLabelsNN use
\* the same value of isDarkSquare for every square index 0..63
C16_SameFlagsInBothStrategies ==
    (labelPc = "done" /\ nnPc = "done" /\ Len(rectangles) = 64) =>
        \A k \in 1..64 : histFlags[k] = nnFlags[k]

\* C21: in getPieceLabels and getPieceLabelsNN, for either value of showLabels,
\* no occupancy test and no labelling of a square reads a pixel that an
\* annotation drawn earlier in the call has changed
C21_ClassificationReadsNoAnnotation ==
    /\ dirtyReads = {}
    /\ nnDirtyReads = {}

\* C22 as stated: in getPieceLabels the flag is light at square 0, flips between
\* consecutive squares of a row, and the first square of each of the 8 rows
\* has the flag of square 0
C22_RowsStartWithSameParity ==
    (labelPc = "done" /\ Len(histFlags) = 64) =>
        /\ histFlags[1] = FALSE
        /\ \A k \in 1..63 : (k % 8 # 0) => histFlags[k + 1] # histFlags[k]
        /\ \A row \in 0..7 : histFlags[8 * row + 1] = histFlags[1]

\* C22 amended: in getPieceLabels the flag is light at square 0, flips between
\* consecutive squares of a row and is kept from the last square of a row to
\* the first square of the next, so that rows start light and dark in turn
C22_FlagKeptAcrossRows ==
    (labelPc \in {"done", "thrown"}) =>
        /\ \A k \in 1..Len(histFlags) :
               IF k = 1 THEN histFlags[k] = FALSE
               ELSE IF (k - 1) % 8 = 0 THEN histFlags[k] = histFlags[k - 1]
               ELSE histFlags[k] # histFlags[k - 1]
        /\ (Len(histFlags) = 64) =>
               \A row \in 0..7 : histFlags[8 * row + 1] = (row % 2 = 1)

C22_Witness ==
    /\ labelPc = "done"
    /\ Len(histFlags) = 64
    /\ histFlags[8] = TRUE
    /\ histFlags[9] = TRUE
    /\ histFlags[17] = FALSE

-----------------------------------------------------------------------------
(* chessCV.cpp: handleBoardFlow in the modes 'x' and 'a' *)

\* scalePointsToOriginal: every point times originalSize / smallerSize
scalePointsToOriginal(points, originalSize, smallerWidth, smallerHeight) ==
    [k \in 1..Len(points) |->
        Normal(points[k].nx * originalSize.cols * smallerHeight,
               points[k].ny * originalSize.rows * smallerWidth,
               points[k].d * smallerWidth * smallerHeight)]

(* Inputs: the lines calcHoughLines finds on the working image of a board, 9
   horizontal and 9 vertical ones 40 apart, or fewer vertical ones *)

BoardLines(nh, nv) ==
    [k \in 1..(nh + nv) |->
        IF k <= nh THEN <<30, 40 + 40 * (k - 1), 400, 40 + 40 * (k - 1)>>
        ELSE <<60 + 40 * (k - nh - 1), 30, 60 + 40 * (k - nh - 1), 500>>]

\* the lines of a board whose rows fall by 5 pixels from left to right, the
\* vertical ones first, both kinds from the last to the first
SlantedBoardLines ==
    [k \in 1..(2 * CornersPerRow) |->
        IF k <= CornersPerRow THEN <<60 + 40 * (CornersPerRow - k), 30, 60 + 40 * (CornersPerRow - k), 500>>
        ELSE <<20, 40 + 40 * (2 * CornersPerRow - k), 420, 45 + 40 * (2 * CornersPerRow - k)>>]

FlowLines ==
    {BoardLines(CornersPerRow, CornersPerRow - lost) : lost \in 0..MaxLostLines}
        \cup {SlantedBoardLines}

\* a board with one white pawn, on the first square of the second row (a dark square)
FlowImages == {[i \in 1..BoardSquares |-> IF i = 9 THEN "wp" ELSE "none"]}

\* handleBoardFlow(src, dst, currentDisplay) after calcHoughLines has returned
InitFlow ==
    /\ CmpIdle
    /\ DiffIdle
    /\ HistIdle
    /\ SquareNotCalled
    /\ currentDisplay \in {"x", "a"}
    /\ imageSize \in ImageSizes
    /\ boardImage \in FlowImages
    /\ csvData \in CsvInputs
    /\ lines \in FlowLines
    /\ intersections = <<>>
    /\ solverPc = "idle"
    /\ solverRet = -1
    /\ gridPoints = <<>>
    /\ rectangles = <<>>
    /\ gridPc = "waiting"
    /\ gridRet = -1
    /\ oobReads = {}
    /\ showLabels = FALSE
    /\ labelPc = "idle"
    /\ labelRet = -1
    /\ histFlags = <<>>
    /\ dirtyReads = {}
    /\ nnDirtyReads = {}
    /\ nnLabels = <<>>
    /\ nnPc = "unused"
    /\ nnRet = -1
    /\ nnFlags = <<>>
    /\ CorpusIdle
    /\ squareLabels = <<>>
    /\ fen = <<>>
    /\ fenPc = "idle"
    /\ turn = ""
    /\ prompts = 0
    /\ currentEmpty = 0
    /\ calls = 0
    /\ prevFen = <<"none">>
    /\ prevTurn = ""
    /\ analysisPc = "idle"
    /\ analysisFen = <<>>

\* lines 124 and 152: getIntersections(dst, lines, newSize, intersections)
FlowGetIntersections == GetIntersections

\* lines 127 and 155: originalPoints = scalePointsToOriginal(dst, intersections, src.size(), newSize)
FlowScalePoints ==
    /\ solverPc = "done"
    /\ gridPc = "waiting"
    /\ gridPoints' = scalePointsToOriginal(intersections, imageSize, ImageWidth, ImageHeight)
    /\ gridPc' = "idle"
    /\ UNCHANGED <<rectangles, gridRet, oobReads, fenVars, cmpVars, solverVars, pieceVars>>

\* lines 131 and 159: setRectangles(dst, originalPoints, rectangles)
FlowSetRectangles == SetRectangles

\* lines 135 and 163: getPieceLabels(dst, rectangles, squareLabels)
FlowGetPieceLabels == gridPc = "done" /\ GetPieceLabels

\* lines 137 and 165: fen = getFenFromLabels(squareLabels)
FlowGetFenFromLabels == labelPc = "done" /\ fenPc = "idle" /\ GetFenFromLabels

FlowReadTurn == \E tok \in TurnTokens : ReadTurn(tok)

\* lines 138 and 166: getChessAnalysis(dst, fen, rectangles); the answer of the
\* server is a json text, or a text nlohmann::json::parse throws on
FlowGetChessAnalysis ==
    /\ fenPc = "returned"
    /\ analysisPc = "idle"
    /\ analysisFen' = fen
    /\ \E parsed \in BOOLEAN : analysisPc' = IF parsed THEN "returned" ELSE "thrown"
    /\ UNCHANGED <<currentDisplay, fenVars, cmpVars, solverVars, gridVars, diffVars, squareVars, labelVars, histVars>>

NextFlow ==
    \/ FlowGetIntersections
    \/ FlowScalePoints
    \/ FlowSetRectangles
    \/ FlowGetPieceLabels
    \/ FlowGetFenFromLabels
    \/ FlowReadTurn
    \/ FlowGetChessAnalysis

SpecFlow == InitFlow /\ [][NextFlow]_vars

\* C12: in a run of handleBoardFlow in mode 'x' or 'a', setRectangles and
\* getPieceLabels are not invoked after getIntersections has left fewer than 81
\* points, and getChessAnalysis is not invoked after getFenFromLabels has
\* returned on a label count other than 64
C12_FailureStopsThePipeline ==
    /\ (solverPc = "done" /\ Len(intersections) < 81) =>
           /\ gridPc \in {"waiting", "idle"}
           /\ labelPc = "idle"
    /\ (fenPc = "returned" /\ Len(squareLabels) # 64) => analysisPc = "idle"

\* two points lie in one row: their y values differ by less than 8
InOneRow(p, q) ==
    /\ RatLess(p.ny, p.d, q.ny + 8 * q.d, q.d)
    /\ RatLess(q.ny, q.d, p.ny + 8 * p.d, p.d)

\* p lies in a row above q: the y of q is more than 8 greater
InRowAbove(p, q) == RatLess(p.ny + 8 * p.d, p.d, q.ny, q.d)

\* the points of getIntersections form 9 rows of 9: 81 distinct points, each
\* with 9 points in its row (itself included), the points of one row having
\* the same points in their row, and any two points of different rows more
\* than 8 apart in y
NineRowsOfNine ==
    LET P == {intersections[k] : k \in 1..Len(intersections)}
    IN  /\ Len(intersections) = 81
        /\ Cardinality(P) = 81
        /\ \A p \in P : Cardinality({q \in P : InOneRow(p, q)}) = 9
        /\ \A p, q \in P : InOneRow(p, q) \/ InRowAbove(p, q) \/ InRowAbove(q, p)
        /\ \A p, q \in P : InOneRow(p, q) => \A t \in P : InOneRow(p, t) <=> InOneRow(q, t)

\* C26: when the 81 points form 9 rows of 9 (within a row y differs by less
\* than 8, between rows by more than 8), comparePoints is a strict weak ordering
\* of them and getIntersections leaves them in row-major order: the rows from
\* top to bottom, x ascending within each row
C26_RowsOfNineSortRowMajor ==
    (solverPc = "done" /\ gridPc = "waiting" /\ NineRowsOfNine) =>
        /\ IsStrictWeakOn({intersections[k] : k \in 1..Len(intersections)})
        /\ \A i, j \in 1..81 :
               i < j =>
                   IF (i - 1) \div 9 = (j - 1) \div 9
                   THEN /\ InOneRow(intersections[i], intersections[j])
                        /\ RatLess(intersections[i].nx, intersections[i].d,
                                   intersections[j].nx, intersections[j].d)
                   ELSE InRowAbove(intersections[i], intersections[j])

\* the slanted board: the first and the last point of the first row differ in y
C26_Witness ==
    /\ solverPc = "done"
    /\ gridPc = "waiting"
    /\ NineRowsOfNine
    /\ lines = SlantedBoardLines
    /\ intersections[1].ny * intersections[9].d # intersections[9].ny * intersections[1].d
    /\ intersections[1] = [nx |-> 120, ny |-> 81, d |-> 2]
    /\ intersections[81] = [nx |-> 760, ny |-> 729, d |-> 2]

-----------------------------------------------------------------------------
(* pieceDetectionOps.cpp: getHistogramFeature *)

(* Single precision: a positive float is m * 2^e, written [m, e], with m below
   2^24 (24 bits of mantissa); results are rounded to the nearest such number,
   ties to the even mantissa. *)

MantissaBits == 24

RECURSIVE Pow2(_)
Pow2(k) == IF k = 0 THEN 1 ELSE 2 * Pow2(k - 1)

RECURSIVE BitLen(_)
BitLen(x) == IF x = 0 THEN 0 ELSE 1 + BitLen(x \div 2)

\* num / den rounded to the nearest whole number, ties to the even one
RoundHalfEven(num, den) ==
    LET q == num \div den
        rem == num % den
    IN  IF 2 * rem > den \/ (2 * rem = den /\ q % 2 = 1) THEN q + 1 ELSE q

\* the binary digits of a / b after the first k of them, until the mantissa m is full
RECURSIVE DivBits(_, _, _, _)
DivBits(rem, b, m, k) ==
    IF m >= Pow2(MantissaBits - 1) THEN [m |-> m, k |-> k, rem |-> rem]
    ELSE IF 2 * rem >= b THEN DivBits(2 * rem - b, b, 2 * m + 1, k + 1)
    ELSE DivBits(2 * rem, b, 2 * m, k + 1)

\* red / total in single precision, 0 < a <= b
FloatDiv(a, b) ==
    LET q == DivBits(a % b, b, a \div b, 0)
        up == 2 * q.rem > b \/ (2 * q.rem = b /\ q.m % 2 = 1)
    IN  [m |-> IF up THEN q.m + 1 ELSE q.m, e |-> 0 - q.k]

\* r * (numBins - 1) in single precision, the factor a whole number
FloatMul(f, factor) ==
    LET prod == f.m * factor
        shift == BitLen(prod) - MantissaBits
    IN  IF shift <= 0 THEN [m |-> prod, e |-> f.e]
        ELSE [m |-> RoundHalfEven(prod, Pow2(shift)), e |-> f.e + shift]

\* a conversion to int that drops the fraction without adding the half
IntOfFloat(f) ==
    IF f.m = 0 \/ f.e < 0 - (MantissaBits + 1) THEN 0
    ELSE IF f.e >= 0 THEN f.m * Pow2(f.e)
    ELSE f.m \div Pow2(0 - f.e)

\* static_cast<int>(f + .5): the sum is made in double precision, which holds
\* it exactly, and the conversion drops the fraction
IntOfPlusHalf(f) ==
    IF f.m = 0 \/ f.e < 0 - (MantissaBits + 1) THEN 0
    ELSE IF f.e >= 0 THEN f.m * Pow2(f.e)
    ELSE (2 * f.m + Pow2(0 - f.e)) \div Pow2(1 - f.e)

\* rIndex or gIndex of a pixel: channel is its red or green value, total the
\* sum of its three values
BinIndex(channel, total, bins) ==
    IF total = 0 \/ channel = 0 THEN 0
    ELSE IntOfPlusHalf(FloatMul(FloatDiv(channel, total), bins - 1))

\* <<rIndex, gIndex>> of the pixel <<blue, green, red>>
BinOf(pixel, bins) ==
    LET total == pixel[1] + pixel[2] + pixel[3]
    IN  <<BinIndex(pixel[3], total, bins), BinIndex(pixel[2], total, bins)>>

\* cv::Mat getHistogramFeature(image, numBins): every bin holds the number of
\* pixels counted in it divided by the number of pixels, <<count, hTotal>>; the
\* bins that count no pixel hold 0 and are left out of the function
getHistogramFeature(image, bins) ==
    LET hit == [i \in 1..Len(image) |-> BinOf(image[i], bins)]
    IN  [b \in {hit[i] : i \in 1..Len(image)} |->
            <<Cardinality({i \in 1..Len(image) : hit[i] = b}), Len(image)>>]

(* Inputs: black, white, the pure colours, a grey and two pixels whose shares
   times 11 and times 19 lie half way between two whole numbers *)

SamplePixels ==
    { <<0, 0, 0>>, <<255, 255, 255>>, <<255, 0, 0>>, <<0, 255, 0>>, <<0, 0, 255>>,
      <<1, 1, 1>>, <<0, 9, 13>>, <<0, 11, 27>> }

RECURSIVE SeqsUpTo(_, _)
SeqsUpTo(S, n) ==
    IF n = 0 THEN {<<>>}
    ELSE LET shorter == SeqsUpTo(S, n - 1)
         IN  shorter \cup {Append(q, x) : q \in {t \in shorter : Len(t) = n - 1}, x \in S}

InitHist ==
    /\ FenIdle
    /\ CmpIdle
    /\ SolverIdle
    /\ GridIdle
    /\ DiffIdle
    /\ SquareIdle
    /\ LabelIdle
    /\ FlowIdle
    /\ histImage \in SeqsUpTo(SamplePixels, MaxPixels) \ {<<>>}
    /\ numBins \in 1..MaxNumBins
    /\ histogram = <<>>
    /\ histPc = "idle"

GetHistogramFeature ==
    /\ histPc = "idle"
    /\ histogram' = getHistogramFeature(histImage, numBins)
    /\ histPc' = "returned"
    /\ UNCHANGED <<histImage, numBins, fenVars, cmpVars, solverVars, gridVars,
                   diffVars, squareVars, labelVars, flowVars>>

NextHist == GetHistogramFeature

SpecHist == InitHist /\ [][NextHist]_vars

\* round(share * (numBins - 1)), half way cases away from zero
RoundedShare(channel, total) ==
    IF total = 0 THEN 0
    ELSE (2 * channel * (numBins - 1) + total) \div (2 * total)

\* share * (numBins - 1) lies half way between two whole numbers
HalfWay(channel, total) ==
    /\ total # 0
    /\ (2 * channel * (numBins - 1)) % total = 0
    /\ ((2 * channel * (numBins - 1)) \div total) % 2 = 1

\* the bins of the result that count a pixel
CountedBins == {b \in DOMAIN histogram : histogram[b][1] > 0}

\* C24 as stated: every pixel is counted in the bin (round(r * (numBins - 1)),
\* round(g * (numBins - 1))) of its red and green shares, both indices are in
\* 0..numBins - 1, and a black pixel is counted in bin (0, 0)
C24_BinIsRoundedShare ==
    histPc = "returned" =>
        /\ \A b \in CountedBins : b[1] \in 0..(numBins - 1) /\ b[2] \in 0..(numBins - 1)
        /\ \A i \in 1..Len(histImage) :
               LET total == histImage[i][1] + histImage[i][2] + histImage[i][3]
               IN  <<RoundedShare(histImage[i][3], total), RoundedShare(histImage[i][2], total)>>
                       \in CountedBins

\* C24 amended: both indices of every counted bin are in 0..numBins - 1, as many
\* pixels are counted as the image has, a black pixel is counted in bin (0, 0),
\* and every pixel is counted in the bin of its rounded shares, where a product
\* share * (numBins - 1) that lies half way between two whole numbers goes to
\* either of them; with 16 bins every pixel is counted as C24 states
C24_BinIsRoundedShareButForTies ==
    histPc = "returned" =>
        /\ \A b \in CountedBins : b[1] \in 0..(numBins - 1) /\ b[2] \in 0..(numBins - 1)
        /\ \A i \in 1..Len(histImage) :
               LET total == histImage[i][1] + histImage[i][2] + histImage[i][3]
                   rr == RoundedShare(histImage[i][3], total)
                   gg == RoundedShare(histImage[i][2], total)
                   rs == IF HalfWay(histImage[i][3], total) THEN {rr - 1, rr} ELSE {rr}
                   gs == IF HalfWay(histImage[i][2], total) THEN {gg - 1, gg} ELSE {gg}
               IN  /\ \E b \in CountedBins : b[1] \in rs /\ b[2] \in gs
                   /\ total = 0 => <<0, 0>> \in CountedBins
                   /\ numBins = 16 => <<rr, gg>> \in CountedBins
        /\ Cardinality(CountedBins) <= Len(histImage)
        /\ \A b \in CountedBins : histogram[b][1] <= Len(histImage) /\ histogram[b][2] = Len(histImage)

\* a black pixel and a pixel with a half way share, counted with 12 bins
C24_Witness ==
    /\ histPc = "returned"
    /\ numBins = 12
    /\ Len(histImage) = 2
    /\ histImage[1] = <<0, 0, 0>>
    /\ histImage[2] = <<0, 9, 13>>
    /\ histogram[<<0, 0>>][1] = 1
    /\ histogram[<<6, 5>>][1] = 1

-----------------------------------------------------------------------------
(* pieceDetectionOps.cpp: labelImages, addLabelFeatures *)

\* std::unordered_set<char> possibleLabels
possibleLabels == {"e", "p", "b", "n", "r", "q", "k"}

\* a flip after every square, the last of a row included
labelImagesFlipAlways(current, isDarkSquare) == ~isDarkSquare

\* labelImages: if (current % 8 != 7) isDarkSquare = !isDarkSquare
labelImagesFlip(current, isDarkSquare) == IF current % 8 # 7 THEN ~isDarkSquare ELSE isDarkSquare

\* sprintf(tmp, ",%.4f", image_data[i]): a bin (tenths) as a whole number of
\* ten-thousandths
FourDecimals(v) == RoundHalfEven(v * 10000, One)

\* getfloat of read_image_data_csv: the ten-thousandths read back, in tenths
ReadFourDecimals(t) == (t * One) \div 10000

\* the row append_image_data_csv writes, as read_image_data_csv reads it: the
\* label is the colour followed by the piece letter
CsvRow(label, pieceColor, histVec) ==
    [label |-> pieceColor \o label,
     data |-> [i \in 1..Len(histVec) |-> ReadFourDecimals(FourDecimals(histVec[i]))]]

\* the for loop of labelImages from the k-th region on (1-based); keys[current]
\* are the two keys cv::waitKey returns at the square; st = [flags, rows, csv, thrown]
RECURSIVE LabelImagesLoop(_, _, _, _, _, _, _)
LabelImagesLoop(rects, size, image, keys, k, isDarkSquare, st) ==
    IF k > Len(rects) \/ st.thrown THEN st
    ELSE LET currentRect_ == rects[k]
             current == k - 1
             flags == Append(st.flags, isDarkSquare)
             key == keys[current].key
             color == keys[current].color
         IN  IF key \notin possibleLabels
             THEN LabelImagesLoop(rects, size, image, keys, k + 1,
                                  labelImagesFlip(current, isDarkSquare),
                                  [st EXCEPT !.flags = flags])
             \* addLabelFeatures: src(rectangle) throws
             ELSE IF ~RoiInside(currentRect_, size)
             THEN [st EXCEPT !.flags = flags, !.thrown = TRUE]
             ELSE LET row == CsvRow(key, color, FeaturesOf(ContentAt(image, k), ShownDark(current)))
                      next == [flags |-> flags,
                               rows |-> Append(st.rows, [square |-> current, dark |-> isDarkSquare]),
                               csv |-> IF isDarkSquare
                                       THEN [st.csv EXCEPT !.dark = Append(@, row)]
                                       ELSE [st.csv EXCEPT !.light = Append(@, row)],
                               thrown |-> FALSE]
                  IN  IF Len(next.rows) > Len(st.rows)
                      THEN LabelImagesLoop(rects, size, image, keys, k + 1,
                                           labelImagesFlip(current, isDarkSquare), next)
                      ELSE next   \* never: the row was appended

(* Inputs: the keys of a session *)

KeysOf(content) ==
    IF content = "wp" THEN [key |-> "p", color |-> "w"]
    ELSE IF content = "bk" THEN [key |-> "k", color |-> "b"]
    ELSE [key |-> "e", color |-> "e"]

\* the user labels the first square and every square with a piece on it, and
\* skips the others with another key
KeysForPieces(image) ==
    [current \in 0..(BoardSquares - 1) |->
        IF current = 0 \/ ContentAt(image, current + 1) # "none"
        THEN KeysOf(ContentAt(image, current + 1))
        ELSE [key |-> "x", color |-> "x"]]

\* the user labels the squares of the second row as empty
KeysForSecondRow ==
    [current \in 0..(BoardSquares - 1) |->
        IF current \div 8 = 1 THEN [key |-> "e", color |-> "e"] ELSE [key |-> "x", color |-> "x"]]

KeySessions(image) == {KeysForPieces(image), KeysForSecondRow}

\* a labelling session and a classification on the same regions
InitCorpus ==
    /\ FenIdle
    /\ CmpIdle
    /\ SolverIdle
    /\ DiffIdle
    /\ FlowIdle
    /\ HistIdle
    /\ SquareNotCalled
    /\ gridPoints = <<>>
    /\ rectangles \in LabelRegions
    /\ gridPc = "unused"
    /\ gridRet = -1
    /\ oobReads = {}
    /\ imageSize \in ImageSizes
    /\ boardImage \in BoardImages
    /\ csvData \in CsvInputs
    /\ showLabels = FALSE
    /\ labelPc = "idle"
    /\ labelRet = -1
    /\ histFlags = <<>>
    /\ dirtyReads = {}
    /\ nnDirtyReads = {}
    /\ nnLabels = <<>>
    /\ nnPc = "unused"
    /\ nnRet = -1
    /\ nnFlags = <<>>
    /\ corpusPc = "idle"
    /\ corpusFlags = <<>>
    /\ corpusRows = <<>>

\* int labelImages(cv::Mat &src), from the loop over the rectangles on
LabelImages ==
    /\ corpusPc = "idle"
    /\ \E keys \in KeySessions(boardImage) :
           LET st == LabelImagesLoop(rectangles, imageSize, boardImage, keys, 1, FALSE,
                                     [flags |-> <<>>, rows |-> <<>>, csv |-> csvData,
                                      thrown |-> FALSE])
           IN  /\ corpusFlags' = st.flags
               /\ corpusRows' = st.rows
               /\ csvData' = st.csv
               /\ corpusPc' = IF st.thrown THEN "thrown" ELSE "done"
    /\ UNCHANGED <<boardImage, showLabels, labelPc, labelRet, histFlags, dirtyReads>>
    /\ UNCHANGED <<nnLabels, nnPc, nnRet, nnFlags, nnDirtyReads>>
    /\ UNCHANGED <<fenVars, cmpVars, solverVars, gridVars, diffVars, squareVars, flowVars, histVars>>

NextCorpus == LabelImages \/ GetPieceLabels

SpecCorpus == InitCorpus /\ [][NextCorpus]_vars

\* C29: on a board of 64 regions labelImages, which appends a row to the dark or
\* the light corpus, and getPieceLabels, which looks a square up in the dark or
\* the light corpus, use the same isDarkSquare at every square: true exactly
\* when (index div 8) + (index mod 8) is odd, square 0 being light
C29_LabellingAndLookupAgreeOnParity ==
    /\ (corpusPc = "done" /\ Len(rectangles) = 64) =>
           /\ Len(corpusFlags) = 64
           /\ \A k \in 1..64 :
                  corpusFlags[k] = ((((k - 1) \div 8) + ((k - 1) % 8)) % 2 = 1)
    /\ (corpusPc = "done" /\ labelPc = "done" /\ Len(rectangles) = 64) =>
           /\ Len(histFlags) = 64
           /\ \A k \in 1..64 : corpusFlags[k] = histFlags[k]
    /\ (corpusPc \in {"done", "thrown"} /\ Len(rectangles) = 64) =>
           \A i \in 1..Len(corpusRows) :
               corpusRows[i].dark =
                   ((((corpusRows[i].square \div 8) + (corpusRows[i].square % 8)) % 2) = 1)

\* a session that appended the rows of the squares 8 (dark) and 9 (light), and a
\* classification of the same 64 regions
C29_Witness ==
    /\ corpusPc = "done"
    /\ labelPc = "done"
    /\ Len(rectangles) = 64
    /\ \E i \in 1..Len(corpusRows) : corpusRows[i] = [square |-> 8, dark |-> TRUE]
    /\ \E i \in 1..Len(corpusRows) : corpusRows[i] = [square |-> 9, dark |-> FALSE]
    /\ histFlags[9] = TRUE
    /\ histFlags[10] = FALSE

=============================================================================
